---- MODULE Spec2Model ----
\* Model of the retrieval and query-augmentation pipeline of web_search.py:
\* WebSearchTool (the three source clients, the fallback chain of search, the
\* content enrichment of search_with_content, format_search_results) and
\* SearchEnhancedLLM.generate_with_search, with the generation backend of
\* lm_studio_client.py as the callee; and of the conversation store of
\* conversation_manager.py.
\*
\* Text that the code inspects character by character (the user message, the
\* query, urls) is a sequence of Unicode code points; text that it only copies
\* or slices (titles, snippets, page content) is a record [id, len, ell]: the
\* first len characters of the text named id, followed by "..." when ell.
EXTENDS Integers, Sequences, FiniteSets, TLC

VARIABLES
    pc,                   \* position of the request task (the pending await)
    entry,                \* entry point the caller invoked
    user_message,         \* generate_with_search arguments
    conversation_history,
    system_prompt,
    auto_search,
    needs_search,         \* local of generate_with_search
    query,                \* search / search_with_content arguments
    max_results,
    fetch_content,
    ddg_results,          \* locals of search
    ddg_html_results,
    wiki_result,          \* what search_wikipedia(lang='ru') returned
    wiki_result_en,       \* what search_wikipedia(lang='en') returned, in either branch
    all_results,
    results,              \* locals of search_with_content
    enhanced_results,
    search_results,       \* local of generate_with_search
    session,              \* WebSearchTool.session
    calls,                \* calls made to the source clients and the extractor
    llm_calls,            \* calls made to lm_client.generate_response
    llm_outcomes,         \* what each of these calls returned or raised
    outcome,              \* how the entry point ended: returned value or raised error
    in_flight,            \* source-client calls of the request started and not yet returned
    ddg_data,             \* search_duckduckgo: the payload it read with response.json()
    conversations,        \* ConversationManager.conversations
    last_activity,        \* ConversationManager.last_activity
    stats,                \* ConversationManager.stats
    cm_last,              \* the last call of a ConversationManager method and its value
    sessions,             \* every aiohttp.ClientSession created so far: "open" or "closed"
    current,              \* WebSearchTool.session: index into sessions, 0 for None
    req,                  \* per concurrent request: the client it is in and the session it got
    requests,             \* RateLimiter.requests: per user the times of the requests it keeps
    now,                  \* the clock that datetime.now() reads
    admitted,             \* per user the times of the calls check_rate_limit allowed since the last reset
    rl_last,              \* the last RateLimiter call and what it returned
    slm_pc,               \* position of the send_long_message call
    slm_content,          \* send_long_message: what is left of content
    reference,            \* send_long_message: whether a message to reply to was given
    parts,                \* send_long_message: the parts cut so far
    sent,                 \* what was handed to reference.reply / channel.send, in order
    original,             \* the content argument as the caller passed it
    starts                \* for each part the offset in the argument at which it was cut

\* the state of the ConversationManager
cm_vars == <<conversations, last_activity, stats, cm_last>>

\* the state of a request to WebSearchTool / SearchEnhancedLLM
web_vars == <<pc, entry, user_message, conversation_history, system_prompt,
          auto_search, needs_search, query, max_results, fetch_content,
          ddg_results, ddg_html_results, wiki_result, wiki_result_en,
          all_results, results, enhanced_results, search_results, session, calls, llm_calls,
          llm_outcomes, outcome, in_flight, ddg_data>>

\* the sessions of one WebSearchTool used by concurrent requests
sess_vars == <<sessions, current, req>>

\* the state of the RateLimiter, its clock and the log of what it allowed
rl_vars == <<requests, now, admitted, rl_last>>

\* the state of a send_long_message call
slm_vars == <<slm_pc, slm_content, reference, parts, sent, original, starts>>

vars == <<web_vars, cm_vars, sess_vars, rl_vars, slm_vars>>

\* what the actions on one part of the state leave alone
outside_web == <<cm_vars, sess_vars, rl_vars, slm_vars>>

outside_cm == <<web_vars, sess_vars, rl_vars, slm_vars>>

outside_sess == <<web_vars, cm_vars, rl_vars, slm_vars>>

outside_rl == <<web_vars, cm_vars, sess_vars, slm_vars>>

outside_slm == <<web_vars, cm_vars, sess_vars, rl_vars>>

----------------------------------------------------------------------------
\* Bounds of the model.

\* number of requests that use one WebSearchTool at the same time
MaxRequests == 2

\* the last reading of the clock of the RateLimiter
MaxTime == 4

\* most runs of equal characters in a content given to send_long_message
MaxRuns == 3

\* number of sessions a WebSearchTool creates
MaxSessions == 2

\* largest max_results a caller of search / search_with_content passes
MaxMaxResults == 3

\* most RelatedTopics entries in an instant-answer payload
MaxTopics == 2

\* most result blocks in an HTML result page
MaxDivs == 2

----------------------------------------------------------------------------
\* Python's None, and the empty string as a sequence of code points.
None == "None"

EmptyStr == << >>

Min(a, b) == IF a <= b THEN a ELSE b

\* Take with the slice one element too long
TakeOneMore(s, n) == SubSeq(s, 1, Min(n + 1, Len(s)))

\* s[:n] for a sequence s and n >= 0
Take(s, n) == SubSeq(s, 1, Min(n, Len(s)))

\* k in s for strings (substring test)
Contains(s, k) ==
    \E i \in 0..(Len(s) - Len(k)) : SubSeq(s, i + 1, i + Len(k)) = k

\* str.lower() of one character; the result is a string, of two characters
\* for U+0130.
LowerChar(c) ==
    IF c >= 65 /\ c <= 90 THEN <<c + 32>>            \* A-Z
    ELSE IF c >= 1040 /\ c <= 1071 THEN <<c + 32>>   \* U+0410-U+042F
    ELSE IF c >= 1024 /\ c <= 1039 THEN <<c + 80>>   \* U+0400-U+040F
    ELSE IF c = 304 THEN <<105, 775>>                \* U+0130
    ELSE <<c>>

RECURSIVE Lower(_)
Lower(s) == IF s = << >> THEN << >> ELSE LowerChar(Head(s)) \o Lower(Tail(s))

\* the characters str.split() treats as separators
IsSpace(c) == c \in {9, 10, 11, 12, 13, 28, 29, 30, 31, 32, 133, 160}

\* str.split(): the maximal runs of non-space characters, in order
RECURSIVE SplitFrom(_, _, _)
SplitFrom(s, i, cur) ==
    IF i > Len(s)
    THEN IF cur = << >> THEN << >> ELSE <<cur>>
    ELSE IF IsSpace(s[i])
         THEN (IF cur = << >> THEN << >> ELSE <<cur>>) \o SplitFrom(s, i + 1, << >>)
         ELSE SplitFrom(s, i + 1, Append(cur, s[i]))

Split(s) == SplitFrom(s, 1, << >>)

QuestionMark == <<63>>

----------------------------------------------------------------------------
\* The trigger lexicon and the sample messages.

\* search_keywords (lines 625-650), each phrase as its sequence of code points.
search_keywords ==
    {
      <<1095, 1090, 1086, 32, 1090, 1072, 1082, 1086, 1077>>,  \* что такое
      <<1082, 1090, 1086, 32, 1090, 1072, 1082, 1086, 1081>>,  \* кто такой
      <<1082, 1090, 1086, 32, 1090, 1072, 1082, 1072, 1103>>,  \* кто такая
      <<1075, 1076, 1077, 32, 1085, 1072, 1093, 1086, 1076, 1080, 1090, 1089, 1103>>,  \* где находится
      <<1082, 1086, 1075, 1076, 1072>>,  \* когда
      <<1082, 1072, 1082, 1086, 1081>>,  \* какой
      <<1082, 1072, 1082, 1072, 1103>>,  \* какая
      <<1082, 1072, 1082, 1080, 1077>>,  \* какие
      <<1089, 1082, 1086, 1083, 1100, 1082, 1086>>,  \* сколько
      <<1087, 1086, 1095, 1077, 1084, 1091>>,  \* почему
      <<1079, 1072, 1095, 1077, 1084>>,  \* зачем
      <<1087, 1086, 1089, 1083, 1077, 1076, 1085, 1080, 1077, 32, 1085, 1086, 1074, 1086, 1089, 1090, 1080>>,  \* последние новости
      <<1072, 1082, 1090, 1091, 1072, 1083, 1100, 1085, 1072, 1103, 32, 1080, 1085, 1092, 1086, 1088, 1084, 1072, 1094, 1080, 1103>>,  \* актуальная информация
      <<1085, 1086, 1074, 1086, 1089, 1090, 1080>>,  \* новости
      <<1087, 1086, 1089, 1083, 1077, 1076, 1085, 1080, 1077, 32, 1089, 1086, 1073, 1099, 1090, 1080, 1103>>,  \* последние события
      <<1095, 1090, 1086, 32, 1085, 1086, 1074, 1086, 1075, 1086>>,  \* что нового
      <<1089, 1074, 1077, 1078, 1080, 1077, 32, 1085, 1086, 1074, 1086, 1089, 1090, 1080>>,  \* свежие новости
      <<1089, 1077, 1075, 1086, 1076, 1085, 1103>>,  \* сегодня
      <<1074, 1095, 1077, 1088, 1072>>,  \* вчера
      <<1085, 1077, 1076, 1072, 1074, 1085, 1086>>,  \* недавно
      <<1074, 32, 1101, 1090, 1086, 1084, 32, 1075, 1086, 1076, 1091>>,  \* в этом году
      <<1074, 32, 1101, 1090, 1086, 1084, 32, 1084, 1077, 1089, 1103, 1094, 1077>>,  \* в этом месяце
      <<1087, 1086, 1080, 1089, 1082>>,  \* поиск
      <<1085, 1072, 1081, 1076, 1080>>,  \* найди
      <<1085, 1072, 1081, 1076, 1080, 32, 1080, 1085, 1092, 1086, 1088, 1084, 1072, 1094, 1080, 1102>>,  \* найди информацию
      <<1088, 1072, 1089, 1089, 1082, 1072, 1078, 1080, 32, 1086>>,  \* расскажи о
      <<1080, 1085, 1092, 1086, 1088, 1084, 1072, 1094, 1080, 1103, 32, 1086>>,  \* информация о
      <<1091, 1079, 1085, 1072, 1081>>,  \* узнай
      <<1087, 1088, 1086, 1074, 1077, 1088, 1100>>,  \* проверь
      <<1087, 1086, 1075, 1091, 1075, 1083, 1080>>,  \* погугли
      <<1082, 1090, 1086, 32, 1089, 1077, 1081, 1095, 1072, 1089>>,  \* кто сейчас
      <<1082, 1090, 1086, 32, 1103, 1074, 1083, 1103, 1077, 1090, 1089, 1103>>,  \* кто является
      <<1082, 1090, 1086, 32, 1079, 1072, 1085, 1080, 1084, 1072, 1077, 1090>>,  \* кто занимает
      <<1082, 1090, 1086, 32, 1074, 1086, 1079, 1075, 1083, 1072, 1074, 1083, 1103, 1077, 1090>>,  \* кто возглавляет
      <<1090, 1077, 1082, 1091, 1097, 1080, 1081>>,  \* текущий
      <<1089, 1077, 1081, 1095, 1072, 1089>>,  \* сейчас
      <<1085, 1072, 32, 1076, 1072, 1085, 1085, 1099, 1081, 32, 1084, 1086, 1084, 1077, 1085, 1090>>,  \* на данный момент
      <<1074, 32, 1085, 1072, 1089, 1090, 1086, 1103, 1097, 1077, 1077, 32, 1074, 1088, 1077, 1084, 1103>>,  \* в настоящее время
      <<1072, 1082, 1090, 1091, 1072, 1083, 1100, 1085, 1099, 1081>>,  \* актуальный
      <<1089, 1086, 1074, 1088, 1077, 1084, 1077, 1085, 1085, 1099, 1081>>,  \* современный
      <<1092, 1072, 1082, 1090, 1099, 32, 1086>>,  \* факты о
      <<1089, 1090, 1072, 1090, 1080, 1089, 1090, 1080, 1082, 1072>>,  \* статистика
      <<1076, 1072, 1085, 1085, 1099, 1077, 32, 1086>>,  \* данные о
      <<1094, 1080, 1092, 1088, 1099>>,  \* цифры
      <<1087, 1086, 1073, 1077, 1076, 1080, 1090, 1077, 1083, 1100>>,  \* победитель
      <<1083, 1080, 1076, 1077, 1088>>,  \* лидер
      <<1095, 1077, 1084, 1087, 1080, 1086, 1085>>,  \* чемпион
      <<1088, 1077, 1082, 1086, 1088, 1076>>,  \* рекорд
      <<1073, 1080, 1086, 1075, 1088, 1072, 1092, 1080, 1103>>,  \* биография
      <<1080, 1089, 1090, 1086, 1088, 1080, 1103>>,  \* история
      <<1076, 1086, 1089, 1090, 1080, 1078, 1077, 1085, 1080, 1103>>,  \* достижения
      <<1082, 1072, 1088, 1100, 1077, 1088, 1072>>  \* карьера
    }

\* english_keywords (lines 653-658), each phrase as its sequence of code points.
english_keywords ==
    {
      <<119, 104, 97, 116, 32, 105, 115>>,  \* what is
      <<119, 104, 111, 32, 105, 115>>,  \* who is
      <<119, 104, 101, 114, 101, 32, 105, 115>>,  \* where is
      <<119, 104, 101, 110>>,  \* when
      <<104, 111, 119>>,  \* how
      <<108, 97, 116, 101, 115, 116, 32, 110, 101, 119, 115>>,  \* latest news
      <<99, 117, 114, 114, 101, 110, 116>>,  \* current
      <<116, 111, 100, 97, 121>>,  \* today
      <<114, 101, 99, 101, 110, 116>>,  \* recent
      <<115, 101, 97, 114, 99, 104, 32, 102, 111, 114>>,  \* search for
      <<102, 105, 110, 100>>,  \* find
      <<116, 101, 108, 108, 32, 109, 101, 32, 97, 98, 111, 117, 116>>,  \* tell me about
      <<105, 110, 102, 111, 114, 109, 97, 116, 105, 111, 110, 32, 97, 98, 111, 117, 116>>,  \* information about
      <<119, 104, 111, 32, 119, 111, 110>>,  \* who won
      <<119, 105, 110, 110, 101, 114>>,  \* winner
      <<99, 104, 97, 109, 112, 105, 111, 110>>,  \* champion
      <<108, 97, 116, 101, 115, 116>>  \* latest
    }

\* question_words (lines 672-673), each phrase as its sequence of code points.
question_words ==
    {
      <<1082, 1090, 1086>>,  \* кто
      <<1095, 1090, 1086>>,  \* что
      <<1075, 1076, 1077>>,  \* где
      <<1082, 1086, 1075, 1076, 1072>>,  \* когда
      <<1087, 1086, 1095, 1077, 1084, 1091>>,  \* почему
      <<1082, 1072, 1082>>,  \* как
      <<1082, 1072, 1082, 1086, 1081>>,  \* какой
      <<119, 104, 111>>,  \* who
      <<119, 104, 97, 116>>,  \* what
      <<119, 104, 101, 114, 101>>,  \* where
      <<119, 104, 101, 110>>,  \* when
      <<119, 104, 121>>,  \* why
      <<104, 111, 119>>,  \* how
      <<119, 104, 105, 99, 104>>  \* which
    }

\* "what is the capital of France?"
MsgCapital ==
    <<119, 104, 97, 116, 32, 105, 115, 32, 116, 104, 101, 32, 99, 97, 112, 105, 116, 97, 108, 32, 111, 102, 32, 70, 114, 97, 110, 99, 101, 63>>

\* "Москва"
MsgMoskva ==
    <<1052, 1086, 1089, 1082, 1074, 1072>>

\* "Paris"
MsgParis ==
    <<80, 97, 114, 105, 115>>

\* "ё"
MsgYo ==
    <<1105>>

\* "who are you?"
MsgWhoAreYou ==
    <<119, 104, 111, 32, 97, 114, 101, 32, 121, 111, 117, 63>>

\* "какие новости"
MsgNovosti ==
    <<1082, 1072, 1082, 1080, 1077, 32, 1085, 1086, 1074, 1086, 1089, 1090, 1080>>

\* "İstanbul"
MsgIstanbul ==
    <<304, 115, 116, 97, 110, 98, 117, 108>>

\* "hello there"
MsgHello ==
    <<104, 101, 108, 108, 111, 32, 116, 104, 101, 114, 101>>


\* The sample inputs for user_message and query.
Messages ==
    {MsgCapital, MsgMoskva, MsgParis, MsgYo, MsgWhoAreYou, MsgNovosti,
     MsgIstanbul, MsgHello}

\* conversation_history: None (the default), modelled as the empty history,
\* or one earlier exchange
Histories ==
    {<< >>, <<[role |-> "user", content |-> "q"], [role |-> "assistant", content |-> "a"]>>}

SystemPrompts == {None, "SYSTEM_PROMPT"}

----------------------------------------------------------------------------
\* Text that is only copied and sliced.

Txt(id, n) == [id |-> id, len |-> n, ell |-> FALSE]

\* t[:n]
Prefix(t, n) == [t EXCEPT !.len = Min(t.len, n)]

\* t + '...'
Ellipsis(t) == [t EXCEPT !.ell = TRUE]

\* "wikipedia.org"
wikipedia_org ==
    <<119, 105, 107, 105, 112, 101, 100, 105, 97, 46, 111, 114, 103>>

\* "https://ru.wikipedia.org/wiki/T"
UrlWikiRu ==
    <<104, 116, 116, 112, 115, 58, 47, 47, 114, 117, 46>> \o wikipedia_org \o <<47, 119, 105, 107, 105, 47, 84>>

\* "https://en.wikipedia.org/wiki/T"
UrlWikiEn ==
    <<104, 116, 116, 112, 115, 58, 47, 47, 101, 110, 46>> \o wikipedia_org \o <<47, 119, 105, 107, 105, 47, 84>>

\* "https://duckduckgo.com/T"
UrlTopic ==
    <<104, 116, 116, 112, 115, 58, 47, 47, 100, 117, 99, 107, 100, 117, 99, 107, 103, 111, 46, 99, 111, 109, 47, 84>>

\* "https://example.com/a"
UrlSite ==
    <<104, 116, 116, 112, 115, 58, 47, 47, 101, 120, 97, 109, 112, 108, 101, 46, 99, 111, 109, 47, 97>>

\* "https://example.com/wikipedia.org/a": a page of another site whose path
\* holds the encyclopedia's name
UrlMirror ==
    <<104, 116, 116, 112, 115, 58, 47, 47, 101, 120, 97, 109, 112, 108, 101, 46, 99, 111, 109, 47>> \o wikipedia_org \o <<47, 97>>

\* the url of the j-th entry of a response: the base url followed by a digit
Numbered(url, j) == Append(url, 48 + j)

\* None where a text is expected
NoContent == [id |-> <<"None", 0>>, len |-> 0, ell |-> FALSE]

\* A search result: the dict with keys title, snippet, url, source; the key
\* full_content is absent (NoContent) until search_with_content sets it.
Result(title, snippet, url, source) ==
    [title |-> title, snippet |-> snippet, url |-> url, source |-> source,
     full_content |-> NoContent]

\* What a call returns to its caller: a value, or a raised exception.
Returned(v) == [exc |-> None, value |-> v]

Raised(e) == [exc |-> e, value |-> None]

----------------------------------------------------------------------------
\* The classifier of generate_with_search.

KeywordHit(message_lower) ==
    \/ \E keyword \in search_keywords : Contains(message_lower, keyword)
    \/ \E keyword \in english_keywords : Contains(message_lower, keyword)

\* NeedsSearch without the limit on the number of words
NeedsSearchNoWordLimit(msg, auto) ==
    LET message_lower == Lower(msg)
        first == auto /\ KeywordHit(message_lower)
        first_words == Take(Split(message_lower), 2)
    IN  IF ~first /\ Contains(msg, QuestionMark)
        THEN IF \E i \in 1..Len(first_words) : first_words[i] \in question_words
             THEN TRUE
             ELSE first
        ELSE first

\* needs_search of generate_with_search: the keyword test, then the test for
\* short questions.
NeedsSearch(msg, auto) ==
    LET message_lower == Lower(msg)
        first == auto /\ KeywordHit(message_lower)
        first_words == Take(Split(message_lower), 2)
    IN  IF ~first /\ Contains(msg, QuestionMark) /\ Len(Split(msg)) < 15
        THEN IF \E i \in 1..Len(first_words) : first_words[i] \in question_words
             THEN TRUE
             ELSE first
        ELSE first

\* is_russian of search: any(ord('a') <= ord(char.lower()) <= ord('ya') ...),
\* evaluated left to right; ord() of a two-character string raises TypeError.
RECURSIVE IsRussianFrom(_, _)
IsRussianFrom(q, i) ==
    IF i > Len(q) THEN "False"
    ELSE LET l == LowerChar(q[i])
         IN  IF Len(l) # 1 THEN "TypeError"
             ELSE IF 1072 <= l[1] /\ l[1] <= 1103 THEN "True"
             ELSE IsRussianFrom(q, i + 1)

is_russian(q) == IsRussianFrom(q, 1)

----------------------------------------------------------------------------
\* HTTP outcomes of the endpoints.

\* the failures of an HTTP call: network error, timeout, malformed payload
HttpFailures == {"ClientError", "TimeoutError", "JSONDecodeError"}

\* sequences over S of length at most n
SeqsUpTo(S, n) == UNION {[1..k -> S] : k \in 0..n}

\* Instant-answer endpoint. RelatedTopics[i] tells whether entry i is a dict
\* with a 'Text' key.
IAResponses ==
    {[kind |-> "exception", exc |-> e, status |-> 0, AbstractText |-> FALSE,
      AbstractURL |-> EmptyStr, RelatedTopics |-> << >>] : e \in HttpFailures}
    \cup
    {[kind |-> "response", exc |-> None, status |-> s, AbstractText |-> FALSE,
      AbstractURL |-> EmptyStr, RelatedTopics |-> << >>] : s \in {202, 500}}
    \cup
    {[kind |-> "response", exc |-> None, status |-> 200, AbstractText |-> FALSE,
      AbstractURL |-> EmptyStr, RelatedTopics |-> t] : t \in SeqsUpTo(BOOLEAN, MaxTopics)}
    \cup
    {[kind |-> "response", exc |-> None, status |-> 200, AbstractText |-> TRUE,
      AbstractURL |-> u, RelatedTopics |-> t] :
        u \in {EmptyStr, UrlWikiEn}, t \in SeqsUpTo(BOOLEAN, MaxTopics)}

\* search_duckduckgo: `data = await response.json()`, the fields of the
\* payload it goes on to read; nothing is read from a failed request or from a
\* response of another status
Data(resp) == [AbstractText |-> resp.AbstractText, RelatedTopics |-> resp.RelatedTopics]

\* no payload read
NoData == [AbstractText |-> FALSE, RelatedTopics |-> << >>]

\* What a result block of the HTML page holds: no title link, a title link to
\* a page of a site, or a title link to a page whose url holds "wikipedia.org"
\* in its path.
DivKinds == {"no_link", "site", "mirror"}

\* HTML result page. divs[i] tells what result block i holds.
HtmlResponses ==
    {[kind |-> "exception", exc |-> e, status |-> 0, divs |-> << >>] : e \in HttpFailures}
    \cup
    {[kind |-> "response", exc |-> None, status |-> 500, divs |-> << >>]}
    \cup
    {[kind |-> "response", exc |-> None, status |-> 200, divs |-> d] :
        d \in SeqsUpTo(DivKinds, MaxDivs)}

\* MediaWiki API: the search call, then the extract call.
WikiResponse(kind, exc, search_status, hits, content_status, page_present, extract_len) ==
    [kind |-> kind, exc |-> exc, search_status |-> search_status, hits |-> hits,
     content_status |-> content_status, page_present |-> page_present,
     extract_len |-> extract_len]

WikiResponses ==
    {WikiResponse("exception", e, 0, 0, 0, FALSE, 0) : e \in HttpFailures}
    \cup
    {WikiResponse("response", None, 500, 0, 0, FALSE, 0),
     WikiResponse("response", None, 200, 0, 0, FALSE, 0),
     WikiResponse("response", None, 200, 1, 500, FALSE, 0),
     WikiResponse("response", None, 200, 1, 200, FALSE, 0),
     WikiResponse("response", None, 200, 1, 200, TRUE, 300),
     WikiResponse("response", None, 200, 1, 200, TRUE, 600)}

\* A fetched page: text_len is the length of the extracted clean text.
PageResponses ==
    {[kind |-> "exception", exc |-> e, status |-> 0, text_len |-> 0] : e \in HttpFailures}
    \cup
    {[kind |-> "response", exc |-> None, status |-> 404, text_len |-> 0]}
    \cup
    {[kind |-> "response", exc |-> None, status |-> 200, text_len |-> n] :
        n \in {0, 400, 1500, 10000}}

\* Generation backend: a reply, or an error that generate_response re-raises.
BackendResponses == {"reply", "error"}

----------------------------------------------------------------------------
\* WebSearchTool

\* The names web_search.py binds at module level are aiohttp, ProxyConnector,
\* logging, List, Dict, Optional, datetime and json: asyncio is not among them.
asyncio_imported == FALSE

\* The handler chain `except asyncio.TimeoutError: return d` followed by
\* `except Exception: return d`, entered with exception e. The first clause
\* evaluates the expression asyncio.TimeoutError, which raises NameError when
\* the name asyncio is unbound.
ExceptTimeoutThenException(e, d) ==
    IF asyncio_imported THEN Returned(d) ELSE Raised("NameError")

\* _get_session: the session to use, created when there is none or it is closed
GetSession(s) == IF s = "None" \/ s = "closed" THEN "open" ELSE s

\* the indices 1..n as a sequence
Indices(n) == [i \in 1..n |-> i]

\* search_duckduckgo making a result of every related-topic entry
SearchDuckDuckGoEveryTopic(resp, q, m) ==
    IF resp.kind = "exception" THEN ExceptTimeoutThenException(resp.exc, << >>)
    ELSE IF resp.status = 202 THEN Returned(<< >>)
    ELSE IF resp.status # 200 THEN Returned(<< >>)
    ELSE LET abstract ==
                 IF resp.AbstractText
                 THEN <<Result(Txt(<<"Heading", 0>>, 20), Txt(<<"AbstractText", 0>>, 200),
                               resp.AbstractURL, "AbstractSource")>>
                 ELSE << >>
             topics == Take(resp.RelatedTopics, m - Len(abstract))
             related ==
                 [j \in 1..Len(topics) |->
                     Result(Txt(<<"FirstURL", j>>, 20),
                            Txt(<<"Text", j>>, 100),
                            Numbered(UrlTopic, j), "DuckDuckGo")]
         IN  Returned(Take(abstract \o related, m))

\* search_duckduckgo: [] on a failed request or a status other than 200, else
\* the abstract when AbstractText is truthy, then one result for each of the
\* first max_results - len(results) related topics that is a dict with 'Text'
search_duckduckgo(resp, q, m) ==
    IF resp.kind = "exception" THEN ExceptTimeoutThenException(resp.exc, << >>)
    ELSE IF resp.status = 202 THEN Returned(<< >>)
    ELSE IF resp.status # 200 THEN Returned(<< >>)
    ELSE LET abstract ==
                 IF resp.AbstractText
                 THEN <<Result(Txt(<<"Heading", 0>>, 20), Txt(<<"AbstractText", 0>>, 200),
                               resp.AbstractURL, "AbstractSource")>>
                 ELSE << >>
             topics == Take(resp.RelatedTopics, m - Len(abstract))
             with_text == SelectSeq(Indices(Len(topics)), LAMBDA i : topics[i])
             related ==
                 [j \in 1..Len(with_text) |->
                     Result(Txt(<<"FirstURL", with_text[j]>>, 20),
                            Txt(<<"Text", with_text[j]>>, 100),
                            Numbered(UrlTopic, with_text[j]), "DuckDuckGo")]
         IN  Returned(Take(abstract \o related, m))

search_duckduckgo_html(resp, q, m) ==
    IF resp.kind = "exception" THEN Returned(<< >>)
    ELSE IF resp.status # 200 THEN Returned(<< >>)
    ELSE LET result_divs == Take(resp.divs, m)
             parsed == SelectSeq(Indices(Len(result_divs)),
                                 LAMBDA i : result_divs[i] # "no_link")
         IN  Returned([j \in 1..Len(parsed) |->
                          Result(Txt(<<"result__a", parsed[j]>>, 20),
                                 Prefix(Txt(<<"result__snippet", parsed[j]>>, 400), 300),
                                 Numbered(IF result_divs[parsed[j]] = "mirror"
                                          THEN UrlMirror ELSE UrlSite, parsed[j]),
                                 "example.com")])

\* search_wikipedia returns a result dict or None: a sequence of one result,
\* or the empty sequence for None.
NoResult == << >>

search_wikipedia(resp, q, lang) ==
    IF resp.kind = "exception" THEN ExceptTimeoutThenException(resp.exc, NoResult)
    ELSE IF resp.search_status # 200 THEN Returned(NoResult)
    ELSE IF resp.hits = 0 THEN Returned(NoResult)
    ELSE IF resp.content_status # 200 THEN Returned(NoResult)
    ELSE IF ~resp.page_present THEN Returned(NoResult)
    ELSE LET extract == Txt(<<"extract", 0>>, resp.extract_len)
         IN  Returned(<<Result(Txt(<<"title", 0>>, 20),
                               IF extract.len > 500 THEN Ellipsis(Prefix(extract, 500))
                               ELSE extract,
                               IF lang = "ru" THEN UrlWikiRu ELSE UrlWikiEn,
                               IF lang = "ru" THEN "Wikipedia (RU)" ELSE "Wikipedia (EN)")>>)

\* fetch_url_content returning the whole clean text
FetchUrlContentUncut(resp, url, max_length) ==
    IF resp.kind = "exception" THEN ExceptTimeoutThenException(resp.exc, NoContent)
    ELSE IF resp.status # 200 THEN Returned(NoContent)
    ELSE Returned(Txt(<<"page", resp.text_len>>, resp.text_len))

\* fetch_url_content returns the text or None. The clean text of a page is
\* named by its length.
fetch_url_content(resp, url, max_length) ==
    IF resp.kind = "exception" THEN ExceptTimeoutThenException(resp.exc, NoContent)
    ELSE IF resp.status # 200 THEN Returned(NoContent)
    ELSE Returned(Prefix(Txt(<<"page", resp.text_len>>, resp.text_len), max_length))

\* `if content:` / `if result['full_content']:` - None and '' are false
Truthy(t) == t.len > 0

\* format_search_results leaving out the last result
FormatDropLast(rs, q) ==
    [kind |-> IF rs = << >> THEN "no_results" ELSE "block", query |-> q,
     found |-> Len(rs), sources |-> 0,
     sections |->
         [i \in 1..(Len(rs) - 1) |->
             [n |-> i, title |-> rs[i].title, source |-> rs[i].source,
              url |-> rs[i].url, snippet |-> rs[i].snippet,
              full_text |-> NoContent]],
     directive |-> Len(rs)]

\* format_search_results: the "no results" sentence for an empty list, else
\* the structured block (header, one numbered section per result, directive).
NoContext ==
    [kind |-> "none", query |-> EmptyStr, found |-> 0, sources |-> 0,
     sections |-> << >>, directive |-> 0]

\* NoResultsSentence with the header and the directive of an empty block
NoResultsAsEmptyBlock(q) ==
    [kind |-> "block", query |-> q, found |-> 0, sources |-> 0,
     sections |-> << >>, directive |-> 0]

\* the sentence returned for an empty list; it names the query
NoResultsSentence(q) ==
    [kind |-> "no_results", query |-> q, found |-> 0, sources |-> 0,
     sections |-> << >>, directive |-> 0]

\* Section printing the full text in place of the snippet
SectionFullTextInstead(i, result) ==
    [n |-> i, title |-> result.title, source |-> result.source, url |-> result.url,
     snippet |-> IF Truthy(result.full_content) THEN NoContent ELSE result.snippet,
     full_text |-> IF Truthy(result.full_content)
                   THEN Ellipsis(Prefix(result.full_content, 800))
                   ELSE NoContent]

\* the numbered section of one result: title, source, url, the snippet under
\* the description heading and, when full_content is there, its first 800
\* characters followed by "..." under the full-text heading
Section(i, result) ==
    [n |-> i, title |-> result.title, source |-> result.source, url |-> result.url,
     snippet |-> result.snippet,
     full_text |-> IF Truthy(result.full_content)
                   THEN Ellipsis(Prefix(result.full_content, 800))
                   ELSE NoContent]

format_search_results(rs, q) ==
    IF rs = << >>
    THEN NoResultsSentence(q)
    ELSE [kind |-> "block", query |-> q, found |-> Len(rs),
          sources |-> Cardinality({rs[i].source : i \in 1..Len(rs)}),
          sections |-> [i \in 1..Len(rs) |-> Section(i, rs[i])],
          directive |-> Len(rs)]

----------------------------------------------------------------------------
\* SearchEnhancedLLM

\* max_results that generate_with_search passes to search_with_content
GwsMaxResults == 3

\* max_length that search_with_content passes to fetch_url_content
SwcMaxLength == 1500

\* default of the parameter include_wikipedia of search; no caller passes it
include_wikipedia == TRUE

\* the user_message argument of generate_response: the caller's message as
\* it is, or the augmented prompt built around the formatted context
PlainMessage(msg) ==
    [template |-> "plain", augmented |-> FALSE, question |-> msg, context |-> NoContext]

EnhancedMessage(msg, search_context) ==
    [template |-> "question_context_instruction", augmented |-> TRUE,
     question |-> msg, context |-> search_context]

\* max_results that search_and_summarize passes to search
SasMaxResults == 5

\* summary_prompt of search_and_summarize: the request for a summary around
\* the formatted context; it embeds no user question of its own
SummaryPrompt(context) ==
    [template |-> "summary", augmented |-> TRUE, question |-> EmptyStr,
     context |-> context]

\* system_prompt that search_and_summarize passes to generate_response
SummarizerSystemPrompt == "SUMMARIZER_SYSTEM_PROMPT"

\* LMStudioClient.generate_response: the reply text, or the exception that
\* its handler logs and re-raises
generate_response(resp) ==
    IF resp = "reply" THEN Returned("reply") ELSE Raised("Exception")

----------------------------------------------------------------------------
\* ConversationManager.__init__: an empty store, no activity, zeroed counters
CmInit ==
    /\ conversations = << >>
    /\ last_activity = << >>
    /\ stats = [total_messages |-> 0, total_conversations |-> 0]
    /\ cm_last = [fn |-> "none", channel_id |-> 0, user_id |-> 0, value |-> << >>]

\* WebSearchTool.__init__: self.session = None; no request under way
SessInit ==
    /\ sessions = << >>
    /\ current = 0
    /\ req = [t \in 1..MaxRequests |-> [client |-> "none", session |-> 0, gets |-> 0]]

\* max_requests and period given to the constructor of RateLimiter
max_requests == 2

period == 2

\* user_id arguments of the RateLimiter calls
RlUsers == {1, 2}

\* what check_rate_limit returns for "seconds until reset" when it allows: None
NoWait == -1

\* RateLimiter.__init__: no request recorded; the clock starts at 0
RlInit ==
    /\ requests = << >>
    /\ now = 0
    /\ admitted = [u \in RlUsers |-> << >>]
    /\ rl_last = [fn |-> "none", user_id |-> 0, allowed |-> FALSE, wait_time |-> NoWait]

\* no send_long_message call under way
SlmInit ==
    /\ slm_pc = "idle"
    /\ slm_content = << >>
    /\ reference = FALSE
    /\ parts = << >>
    /\ sent = << >>
    /\ original = << >>
    /\ starts = << >>

OutsideWebInit == CmInit /\ SessInit /\ RlInit /\ SlmInit

Init ==
    /\ pc = "idle"
    /\ entry = "none"
    /\ user_message = EmptyStr
    /\ conversation_history = << >>
    /\ system_prompt = None
    /\ auto_search = TRUE
    /\ needs_search = FALSE
    /\ query = EmptyStr
    /\ max_results = 1
    /\ fetch_content = FALSE
    /\ ddg_results = << >>
    /\ ddg_html_results = << >>
    /\ wiki_result = NoResult
    /\ wiki_result_en = NoResult
    /\ all_results = << >>
    /\ results = << >>
    /\ enhanced_results = << >>
    /\ search_results = << >>
    /\ session = "None"
    /\ calls = << >>
    /\ llm_calls = << >>
    /\ llm_outcomes = << >>
    /\ outcome = Returned(None)
    /\ in_flight = {}
    /\ ddg_data = NoData
    /\ OutsideWebInit

gws_args == <<user_message, conversation_history, system_prompt, auto_search, needs_search>>

search_args == <<query, max_results, fetch_content>>

search_locals == <<ddg_results, ddg_html_results, wiki_result, wiki_result_en, all_results>>

swc_locals == <<results, enhanced_results>>

\* A caller invokes search(query, max_results).
CallSearch(q, m) ==
    /\ pc = "idle"
    /\ entry' = "search"
    /\ query' = q
    /\ max_results' = m
    /\ pc' = "search_ddg"
    /\ UNCHANGED <<gws_args, fetch_content, search_locals, swc_locals,
                   search_results, session, calls, llm_calls, llm_outcomes, outcome>>
    /\ UNCHANGED <<in_flight, ddg_data>>
    /\ UNCHANGED outside_web

\* A caller invokes search_with_content(query, max_results, fetch_content).
CallSearchWithContent(q, m, f) ==
    /\ pc = "idle"
    /\ entry' = "search_with_content"
    /\ query' = q
    /\ max_results' = m
    /\ fetch_content' = f
    /\ pc' = "search_ddg"
    /\ UNCHANGED <<gws_args, search_locals, swc_locals, search_results,
                   session, calls, llm_calls, llm_outcomes, outcome>>
    /\ UNCHANGED <<in_flight, ddg_data>>
    /\ UNCHANGED outside_web

\* A caller invokes generate_with_search; the classifier runs and the task
\* reaches its first await: search_with_content(user_message, 3, True) when
\* needs_search, else generate_response.
CallGenerateWithSearch(msg, hist, sys, auto) ==
    /\ pc = "idle"
    /\ entry' = "generate_with_search"
    /\ user_message' = msg
    /\ conversation_history' = hist
    /\ system_prompt' = sys
    /\ auto_search' = auto
    /\ needs_search' = NeedsSearch(msg, auto)
    /\ IF NeedsSearch(msg, auto)
       THEN /\ query' = msg
            /\ max_results' = GwsMaxResults
            /\ fetch_content' = TRUE
            /\ pc' = "search_ddg"
       ELSE /\ UNCHANGED search_args
            /\ pc' = "generate"
    /\ UNCHANGED <<search_locals, swc_locals, search_results, session, calls,
                   llm_calls, llm_outcomes, outcome>>
    /\ UNCHANGED <<in_flight, ddg_data>>
    /\ UNCHANGED outside_web

\* A caller invokes search_and_summarize(query), which awaits
\* self.web_search.search(query, max_results=5) at once.
CallSearchAndSummarize(q) ==
    /\ pc = "idle"
    /\ entry' = "search_and_summarize"
    /\ query' = q
    /\ max_results' = SasMaxResults
    /\ pc' = "search_ddg"
    /\ UNCHANGED <<gws_args, fetch_content, search_locals, swc_locals,
                   search_results, session, calls, llm_calls, llm_outcomes, outcome>>
    /\ UNCHANGED <<in_flight, ddg_data>>
    /\ UNCHANGED outside_web

\* Extend inserting at the front instead of the end
ExtendFront(all, rs) == rs \o all

\* all_results.extend(rs); all_results.append(r) for a result r that is not None
Extend(all, rs) == all \o rs

\* An entry of the call log: the client called, its lang argument, its url
\* argument, whether its HTTP call failed and with which exception, the status
\* of the response, the exception the client raised to its caller (None when
\* it returned) and how many results it returned.
Call(fn, lang, url, resp, r, n) ==
    [fn |-> fn, lang |-> lang, url |-> url, failed |-> resp.kind = "exception",
     exc |-> resp.exc, status |-> resp.status, raised |-> r.exc, count |-> n]

\* number of results in what a client returned
Count(r) == IF r.exc = None THEN Len(r.value) ELSE 0

\* Where search continues, given all_results so far. "raise_TypeError" stands
\* for the TypeError that evaluating is_russian raises.
\* AfterWikipediaRu without the test of the result count
AfterWikipediaRuAlwaysEn(all) == "search_wiki_en"

AfterWikipediaRu(all) ==
    IF Len(all) < max_results THEN "search_wiki_en" ELSE "search_return"

AfterHtml(all) ==
    IF include_wikipedia /\ Len(all) < max_results
    THEN CASE is_russian(query) = "TypeError" -> "raise_TypeError"
           [] is_russian(query) = "True" -> "search_wiki_ru"
           [] OTHER -> "search_wiki_en"
    ELSE "search_return"

\* AfterDuckDuckGo without the HTML fallback
AfterDuckDuckGoSkipHtml(all) == AfterHtml(all)

AfterDuckDuckGo(all) ==
    IF Len(all) = 0 THEN "search_html" ELSE AfterHtml(all)

NextPc(p) == IF p = "raise_TypeError" THEN "done" ELSE p

NextOutcome(p) == IF p = "raise_TypeError" THEN Raised("TypeError") ELSE outcome

\* the source-client call that search makes at a position
SourceCallAt(p) ==
    CASE p = "search_ddg" -> [fn |-> "search_duckduckgo", lang |-> None]
      [] p = "search_html" -> [fn |-> "search_duckduckgo_html", lang |-> None]
      [] p = "search_wiki_ru" -> [fn |-> "search_wikipedia", lang |-> "ru"]
      [] p = "search_wiki_en" -> [fn |-> "search_wikipedia", lang |-> "en"]

\* AfterStart going on to the next source without waiting for the call
AfterStartNoAwait(p) ==
    CASE p = "search_ddg" -> "search_html"
      [] p = "search_html" -> "search_wiki_ru"
      [] p = "search_wiki_ru" -> "search_wiki_en"
      [] p = "search_wiki_en" -> "await_wiki_en"

\* `x = await self.search_...(...)`: once the call is started, search is
\* suspended at that await until the client returns
AfterStart(p) ==
    CASE p = "search_ddg" -> "await_ddg"
      [] p = "search_html" -> "await_html"
      [] p = "search_wiki_ru" -> "await_wiki_ru"
      [] p = "search_wiki_en" -> "await_wiki_en"

\* search starts the source-client call of its position
StartSourceCall ==
    /\ pc \in {"search_ddg", "search_html", "search_wiki_ru", "search_wiki_en"}
    /\ in_flight' = in_flight \cup {SourceCallAt(pc)}
    /\ pc' = AfterStart(pc)
    /\ UNCHANGED <<entry, user_message, conversation_history, system_prompt,
                   auto_search, needs_search, query, max_results, fetch_content,
                   ddg_results, ddg_html_results, wiki_result, wiki_result_en,
                   all_results, results, enhanced_results, search_results,
                   session, calls, llm_calls, llm_outcomes, outcome, ddg_data>>
    /\ UNCHANGED outside_web

\* search: ddg_results = await self.search_duckduckgo(query, max_results)
SearchDuckDuckGo ==
    /\ pc = "await_ddg"
    /\ in_flight' = in_flight \ {SourceCallAt("search_ddg")}
    /\ \E resp \in IAResponses :
        LET r == search_duckduckgo(resp, query, max_results)
        IN  /\ session' = GetSession(session)
            /\ ddg_data' = Data(resp)
            /\ calls' = Append(calls, Call("search_duckduckgo", None, EmptyStr, resp, r, Count(r)))
            /\ IF r.exc # None
               THEN /\ pc' = "done"
                    /\ outcome' = Raised(r.exc)
                    /\ UNCHANGED <<ddg_results, all_results>>
               ELSE /\ ddg_results' = r.value
                    /\ all_results' = Extend(all_results, r.value)
                    /\ pc' = NextPc(AfterDuckDuckGo(Extend(all_results, r.value)))
                    /\ outcome' = NextOutcome(AfterDuckDuckGo(Extend(all_results, r.value)))
    /\ UNCHANGED <<entry, gws_args, search_args, ddg_html_results, wiki_result,
                   wiki_result_en, swc_locals, search_results, llm_calls, llm_outcomes>>
    /\ UNCHANGED outside_web

\* search: ddg_html_results = await self.search_duckduckgo_html(query, max_results)
SearchDuckDuckGoHtml ==
    /\ pc = "await_html"
    /\ in_flight' = in_flight \ {SourceCallAt("search_html")}
    /\ UNCHANGED ddg_data
    /\ \E resp \in HtmlResponses :
        LET r == search_duckduckgo_html(resp, query, max_results)
        IN  /\ session' = GetSession(session)
            /\ calls' = Append(calls, Call("search_duckduckgo_html", None, EmptyStr, resp, r, Count(r)))
            /\ ddg_html_results' = r.value
            /\ all_results' = Extend(all_results, r.value)
            /\ pc' = NextPc(AfterHtml(Extend(all_results, r.value)))
            /\ outcome' = NextOutcome(AfterHtml(Extend(all_results, r.value)))
    /\ UNCHANGED <<entry, gws_args, search_args, ddg_results, wiki_result,
                   wiki_result_en, swc_locals, search_results, llm_calls, llm_outcomes>>
    /\ UNCHANGED outside_web

\* search: wiki_result = await self.search_wikipedia(query, lang='ru')
SearchWikipediaRu ==
    /\ pc = "await_wiki_ru"
    /\ in_flight' = in_flight \ {SourceCallAt("search_wiki_ru")}
    /\ UNCHANGED ddg_data
    /\ \E resp \in WikiResponses :
        LET r == search_wikipedia(resp, query, "ru")
        IN  /\ session' = GetSession(session)
            /\ calls' = Append(calls, Call("search_wikipedia", "ru", EmptyStr,
                                           [kind |-> resp.kind, exc |-> resp.exc,
                                            status |-> resp.search_status],
                                           r, Count(r)))
            /\ IF r.exc # None
               THEN /\ pc' = "done"
                    /\ outcome' = Raised(r.exc)
                    /\ UNCHANGED <<wiki_result, all_results>>
               ELSE /\ wiki_result' = r.value
                    /\ all_results' = Extend(all_results, r.value)
                    /\ pc' = AfterWikipediaRu(Extend(all_results, r.value))
                    /\ UNCHANGED outcome
    /\ UNCHANGED <<entry, gws_args, search_args, ddg_results, ddg_html_results,
                   wiki_result_en, swc_locals, search_results, llm_calls, llm_outcomes>>
    /\ UNCHANGED outside_web

\* search: the call search_wikipedia(query, lang='en') of either branch
SearchWikipediaEn ==
    /\ pc = "await_wiki_en"
    /\ in_flight' = in_flight \ {SourceCallAt("search_wiki_en")}
    /\ UNCHANGED ddg_data
    /\ \E resp \in WikiResponses :
        LET r == search_wikipedia(resp, query, "en")
        IN  /\ session' = GetSession(session)
            /\ calls' = Append(calls, Call("search_wikipedia", "en", EmptyStr,
                                           [kind |-> resp.kind, exc |-> resp.exc,
                                            status |-> resp.search_status],
                                           r, Count(r)))
            /\ IF r.exc # None
               THEN /\ pc' = "done"
                    /\ outcome' = Raised(r.exc)
                    /\ UNCHANGED <<wiki_result_en, all_results>>
               ELSE /\ wiki_result_en' = r.value
                    /\ all_results' = Extend(all_results, r.value)
                    /\ pc' = "search_return"
                    /\ UNCHANGED outcome
    /\ UNCHANGED <<entry, gws_args, search_args, ddg_results, ddg_html_results,
                   wiki_result, swc_locals, search_results, llm_calls, llm_outcomes>>
    /\ UNCHANGED outside_web

\* the fixed sentence search_and_summarize returns for an empty result list
NothingFound == "nothing_found"

\* AfterSearchOfSummarize without the early return
AfterSearchOfSummarizeAlways(rs) == "summarize"

\* search_and_summarize: `if not search_results: return <fixed sentence>`,
\* else on to the generate_response call
AfterSearchOfSummarize(rs) == IF rs = << >> THEN "done" ELSE "summarize"

\* where the task goes when search_with_content returns
AfterSearchWithContent == IF entry = "search_with_content" THEN "done" ELSE "generate"

\* search: return all_results[:max_results]; then, in search_with_content,
\* the test `if not fetch_content or not results: return results`.
SearchReturn ==
    /\ pc = "search_return"
    /\ LET ret == Take(all_results, max_results)
       IN  IF entry = "search"
           THEN /\ pc' = "done"
                /\ outcome' = Returned(ret)
                /\ UNCHANGED <<swc_locals, search_results>>
           ELSE IF entry = "search_and_summarize"
           THEN /\ search_results' = ret
                /\ pc' = AfterSearchOfSummarize(ret)
                /\ outcome' = IF AfterSearchOfSummarize(ret) = "done"
                              THEN Returned(NothingFound) ELSE outcome
                /\ UNCHANGED swc_locals
           ELSE /\ results' = ret
                /\ enhanced_results' = << >>
                /\ IF ~fetch_content \/ ret = << >>
                   THEN /\ pc' = AfterSearchWithContent
                        /\ search_results' = ret
                        /\ outcome' = IF entry = "search_with_content"
                                      THEN Returned(ret) ELSE outcome
                   ELSE /\ pc' = "swc_loop"
                        /\ UNCHANGED <<search_results, outcome>>
    /\ UNCHANGED <<entry, gws_args, search_args, search_locals, session, calls,
                   llm_calls, llm_outcomes>>
    /\ UNCHANGED <<in_flight, ddg_data>>
    /\ UNCHANGED outside_web

\* the result after `result['full_content'] = content` and the new snippet
Enriched(result, content) ==
    [result EXCEPT !.full_content = content,
                   !.snippet = IF content.len > 500
                               THEN Ellipsis(Prefix(content, 500))
                               ELSE content]

\* search_with_content: one iteration of `for result in results`, and the
\* return of enhanced_results after the last one.
EnrichResult ==
    /\ pc = "swc_loop"
    /\ LET i == Len(enhanced_results) + 1
           result == results[i]
           url == result.url
           Finish(new) ==
               /\ enhanced_results' = Append(enhanced_results, new)
               /\ results' = [results EXCEPT ![i] = new]
               /\ IF i = Len(results)
                  THEN /\ pc' = AfterSearchWithContent
                       /\ search_results' = Append(enhanced_results, new)
                       /\ outcome' = IF entry = "search_with_content"
                                     THEN Returned(Append(enhanced_results, new))
                                     ELSE outcome
                  ELSE /\ pc' = "swc_loop"
                       /\ UNCHANGED <<search_results, outcome>>
       IN  IF url = EmptyStr \/ Contains(url, wikipedia_org)
           THEN /\ Finish(result)
                /\ UNCHANGED <<session, calls>>
           ELSE \E resp \in PageResponses :
                LET r == fetch_url_content(resp, url, SwcMaxLength)
                IN  /\ session' = GetSession(session)
                    /\ calls' = Append(calls, Call("fetch_url_content", None, url, resp, r,
                                           IF r.exc = None /\ Truthy(r.value) THEN 1 ELSE 0))
                    /\ IF r.exc # None
                       THEN /\ pc' = "done"
                            /\ outcome' = Raised(r.exc)
                            /\ UNCHANGED <<swc_locals, search_results>>
                       ELSE IF Truthy(r.value)
                            THEN Finish(Enriched(result, r.value))
                            ELSE Finish(result)
    /\ UNCHANGED <<entry, gws_args, search_args, search_locals, llm_calls, llm_outcomes>>
    /\ UNCHANGED <<in_flight, ddg_data>>
    /\ UNCHANGED outside_web

\* AfterBackendCall falling through to the plain generation after the first
\* backend call
AfterBackendCallFallThrough(n) == IF n < 2 THEN "generate" ELSE "done"

\* generate_with_search: both backend calls are `return await
\* self.lm_client.generate_response(...)`: whichever runs, being the n-th
\* backend call of the request, ends generate_with_search
AfterBackendCall(n) == "done"

\* GenerationPrompt augmenting whatever the classifier said
GenerationPromptAlwaysEnhanced(needs, rs, msg) ==
    EnhancedMessage(msg, format_search_results(rs, msg))

\* generate_with_search: the user_message it passes to generate_response: the
\* augmented prompt when the search ran and search_results is not empty, else
\* the caller's message.
GenerationPrompt(needs, rs, msg) ==
    IF needs /\ rs # << >>
    THEN EnhancedMessage(msg, format_search_results(rs, msg))
    ELSE PlainMessage(msg)

\* AwaitedReturn turning an exception into a returned error text
AwaitedReturnSwallow(r) == IF r.exc # None THEN Returned("error_text") ELSE r

\* `return await f(...)`: what f returned is returned, what f raised leaves
\* the caller too
AwaitedReturn(r) == r

\* generate_with_search: return await self.lm_client.generate_response(...)
Generate ==
    /\ pc = "generate"
    /\ \E resp \in BackendResponses :
        LET prompt == GenerationPrompt(needs_search, search_results, user_message)
        IN  /\ llm_calls' = Append(llm_calls,
                                   [user_message |-> prompt,
                                    conversation_history |-> conversation_history,
                                    system_prompt |-> system_prompt])
            /\ llm_outcomes' = Append(llm_outcomes, generate_response(resp))
            /\ outcome' = AwaitedReturn(generate_response(resp))
            /\ pc' = AfterBackendCall(Len(llm_calls) + 1)
    /\ UNCHANGED <<entry, gws_args, search_args, search_locals, swc_locals,
                   search_results, session, calls>>
    /\ UNCHANGED <<in_flight, ddg_data>>
    /\ UNCHANGED outside_web

\* search_and_summarize: return await self.lm_client.generate_response(
\* user_message=summary_prompt, system_prompt=<summarizer prompt>)
Summarize ==
    /\ pc = "summarize"
    /\ \E resp \in BackendResponses :
        LET context == format_search_results(search_results, query)
        IN  /\ llm_calls' = Append(llm_calls,
                                   [user_message |-> SummaryPrompt(context),
                                    conversation_history |-> << >>,
                                    system_prompt |-> SummarizerSystemPrompt])
            /\ llm_outcomes' = Append(llm_outcomes, generate_response(resp))
            /\ outcome' = AwaitedReturn(generate_response(resp))
            /\ pc' = "done"
    /\ UNCHANGED <<entry, gws_args, search_args, search_locals, swc_locals,
                   search_results, session, calls>>
    /\ UNCHANGED <<in_flight, ddg_data>>
    /\ UNCHANGED outside_web

Next ==
    \/ \E q \in Messages, m \in 1..MaxMaxResults : CallSearch(q, m)
    \/ \E q \in Messages, m \in 1..MaxMaxResults, f \in BOOLEAN :
           CallSearchWithContent(q, m, f)
    \/ \E msg \in Messages, hist \in Histories, sys \in SystemPrompts, auto \in BOOLEAN :
           CallGenerateWithSearch(msg, hist, sys, auto)
    \/ StartSourceCall
    \/ SearchDuckDuckGo
    \/ SearchDuckDuckGoHtml
    \/ SearchWikipediaRu
    \/ SearchWikipediaEn
    \/ SearchReturn
    \/ EnrichResult
    \/ Generate
    \/ \E q \in Messages : CallSearchAndSummarize(q)
    \/ Summarize

Spec == Init /\ [][Next]_vars

----------------------------------------------------------------------------
\* Properties of the retrieval pipeline.

SourceClients == {"search_duckduckgo", "search_duckduckgo_html", "search_wikipedia"}

\* what the clients returned, concatenated in source-priority order
PriorityOrder == ddg_results \o ddg_html_results \o wiki_result \o wiki_result_en

\* the source a result came from, read off the result itself
SourceRank(r) ==
    IF r.snippet.id[1] \in {"AbstractText", "Text"} THEN 1
    ELSE IF r.snippet.id[1] = "result__snippet" THEN 2
    ELSE IF r.url = UrlWikiRu THEN 3
    ELSE 4

\* rs is in source-priority order, each source's results in the order the
\* source gave them (the abstract first, then entries by position)
InPriorityOrder(rs) ==
    \A i, j \in 1..Len(rs) :
        i < j => \/ SourceRank(rs[i]) < SourceRank(rs[j])
                 \/ /\ SourceRank(rs[i]) = SourceRank(rs[j])
                    /\ rs[i].snippet.id[2] < rs[j].snippet.id[2]

WikiCall(i, lang) == calls[i].fn = "search_wikipedia" /\ calls[i].lang = lang

HtmlCalled == \E i \in 1..Len(calls) : calls[i].fn = "search_duckduckgo_html"

\* the arguments generate_with_search received, as a plain backend call
UnmodifiedCall ==
    [user_message |-> PlainMessage(user_message),
     conversation_history |-> conversation_history,
     system_prompt |-> system_prompt]

\* C1: every list that search or search_with_content returns (to an outside
\* caller or to generate_with_search) has at most max_results elements.
C1_AtMostMaxResults ==
    /\ (pc = "done" /\ entry \in {"search", "search_with_content"} /\ outcome.exc = None)
           => Len(outcome.value) <= max_results
    /\ (entry = "generate_with_search" /\ pc = "generate")
           => Len(search_results) <= max_results

\* C1 witness: search_with_content has returned a list of exactly
\* max_results = 3 enriched or skipped results.
C1_Witness ==
    /\ pc = "done" /\ entry = "search_with_content" /\ outcome.exc = None
    /\ fetch_content /\ max_results = 3 /\ Len(outcome.value) = 3
    /\ Len(ddg_results) = 3

\* C2: the list search returns is the concatenation instant-answer results,
\* HTML results, 'ru' encyclopedia result, 'en' encyclopedia result, each in
\* the order its source gave it, cut to its first max_results elements.
C2_SourcePriorityOrder ==
    /\ (pc = "done" /\ entry = "search" /\ outcome.exc = None)
           => /\ outcome.value = Take(PriorityOrder, max_results)
              /\ InPriorityOrder(outcome.value)
    /\ (pc = "swc_loop" /\ enhanced_results = << >>)
           => /\ results = Take(PriorityOrder, max_results)
              /\ InPriorityOrder(results)

\* C2 witness: search has returned HTML results followed by the 'ru' and the
\* 'en' encyclopedia result.
C2_Witness ==
    /\ pc = "done" /\ entry = "search" /\ outcome.exc = None
    /\ ddg_html_results # << >> /\ wiki_result # << >> /\ wiki_result_en # << >>
    /\ Len(outcome.value) = 3

\* C3: a source client whose HTTP call fails (network error, timeout,
\* malformed payload) raises nothing to its caller and returns an empty result.
C3_ClientsNeverRaise ==
    \A i \in 1..Len(calls) :
        (calls[i].fn \in SourceClients /\ calls[i].failed)
            => (calls[i].raised = None /\ calls[i].count = 0)

\* C4: when the classifier is true and every source call fails,
\* generate_with_search raises nothing of the retrieval, the aggregator was
\* called with max_results = 3 and fetch_content = true and returned an empty
\* list, and the backend is called once with the unmodified arguments.
C4_AllSourcesFailFallsBack ==
    (/\ entry = "generate_with_search" /\ needs_search
     /\ pc = "done"
     /\ \A i \in 1..Len(calls) : calls[i].failed)
        => /\ outcome.exc \in {None, "Exception"}
           /\ max_results = 3 /\ fetch_content
           /\ search_results = << >>
           /\ llm_calls = <<UnmodifiedCall>>

\* C5: once the instant-answer step of a search is over, the HTML-search
\* client is or is about to be invoked if and only if the instant-answer
\* call contributed no result, whether it succeeded or failed.
C5_HtmlIffCountZero ==
    Len(calls) >= 1
        => ((HtmlCalled \/ pc \in {"search_html", "await_html"}) <=> calls[1].count = 0)

\* C6: an instant-answer response with status 202 makes search_duckduckgo
\* return an empty list without raising, and search goes on to the
\* HTML-search client.
C6_AcceptedIsEmptySuccess ==
    (/\ Len(calls) >= 1 /\ calls[1].fn = "search_duckduckgo"
     /\ ~calls[1].failed /\ calls[1].status = 202)
        => /\ calls[1].raised = None
           /\ calls[1].count = 0
           /\ ddg_results = << >>
           /\ \/ pc \in {"search_html", "await_html"}
              \/ Len(calls) >= 2 /\ calls[2].fn = "search_duckduckgo_html"

\* C6 witness: the HTML-search client has been called right after a 202 of
\* the instant-answer endpoint.
C6_Witness ==
    /\ Len(calls) >= 2
    /\ calls[1].fn = "search_duckduckgo" /\ calls[1].status = 202
    /\ calls[2].fn = "search_duckduckgo_html"

\* a character of the Cyrillic blocks U+0400-U+052F
IsCyrillic(c) == c >= 1024 /\ c <= 1327

HasCyrillic(q) == \E i \in 1..Len(q) : IsCyrillic(q[i])

\* C7: for a query with a Cyrillic character every lang='en' encyclopedia
\* call comes after a lang='ru' call; for a query without one there is no
\* lang='ru' call.
C7_CyrillicRuBeforeEn ==
    /\ HasCyrillic(query)
           => \A i \in 1..Len(calls) :
                  WikiCall(i, "en") => \E j \in 1..(i - 1) : WikiCall(j, "ru")
    /\ ~HasCyrillic(query)
           => \A i \in 1..Len(calls) : ~WikiCall(i, "ru")

\* C8: the encyclopedia client is called with lang='ru' only when the
\* earlier sources supplied fewer than max_results results, and with
\* lang='en' only when these and the 'ru' result together are fewer.
C8_WikipediaOnlyBelowMaxResults ==
    \A i \in 1..Len(calls) :
        /\ WikiCall(i, "ru")
               => Len(ddg_results) + Len(ddg_html_results) < max_results
        /\ WikiCall(i, "en")
               => Len(ddg_results) + Len(ddg_html_results) + Len(wiki_result)
                      < max_results

\* C8 witness: a search of a Cyrillic query has ended without a lang='en'
\* call, the 'ru' result having brought the count to max_results.
C8_Witness ==
    /\ pc = "done" /\ entry = "search" /\ outcome.exc = None
    /\ \E i \in 1..Len(calls) : WikiCall(i, "ru")
    /\ \A i \in 1..Len(calls) : ~WikiCall(i, "en")
    /\ wiki_result # << >>
    /\ Len(ddg_results) + Len(ddg_html_results) + 1 = max_results
    /\ max_results >= 2

\* C9: when the classifier is false, generate_with_search calls no source
\* client and no content extractor, and calls the backend once with the
\* message, history and system prompt it received.
C9_NoRetrievalWhenClassifierFalse ==
    (entry = "generate_with_search" /\ ~needs_search)
        => /\ calls = << >>
           /\ pc = "generate" => llm_calls = << >>
           /\ pc = "done" => llm_calls = <<UnmodifiedCall>>

\* C9 witness: a call with a history and a system prompt, classified false,
\* has ended.
C9_Witness ==
    /\ entry = "generate_with_search" /\ ~needs_search /\ pc = "done"
    /\ auto_search
    /\ conversation_history # << >> /\ system_prompt # None
    /\ Len(llm_calls) = 1

\* C10: when the classifier is true and search_with_content, called with
\* max_results = 3 and fetch_content = true, returned a non-empty list, the
\* backend is called once with an augmented prompt that holds the original
\* message and one section per returned result, in order, and with the
\* caller's history and system prompt.
C10_AugmentedPromptWhenResults ==
    (/\ entry = "generate_with_search" /\ needs_search
     /\ pc = "done" /\ search_results # << >>)
        => /\ max_results = 3 /\ fetch_content
           /\ Len(llm_calls) = 1
           /\ llm_calls[1].conversation_history = conversation_history
           /\ llm_calls[1].system_prompt = system_prompt
           /\ LET prompt == llm_calls[1].user_message
                  sections == prompt.context.sections
              IN  /\ prompt.augmented
                  /\ prompt.question = user_message
                  /\ prompt.context.kind = "block"
                  /\ prompt.context.query = user_message
                  /\ Len(sections) = Len(search_results)
                  /\ \A i \in 1..Len(search_results) :
                         /\ sections[i].n = i
                         /\ sections[i].title = search_results[i].title
                         /\ sections[i].source = search_results[i].source
                         /\ sections[i].url = search_results[i].url
                         /\ sections[i].snippet = search_results[i].snippet

\* C10 witness: the backend has been called with the context of three
\* results, the first of them enriched with fetched content.
C10_Witness ==
    /\ entry = "generate_with_search" /\ pc = "done"
    /\ Len(search_results) = 3 /\ Truthy(search_results[1].full_content)
    /\ Len(llm_calls) = 1 /\ llm_calls[1].user_message.augmented
    /\ conversation_history # << >>

\* search_and_summarize has ended and the error it raised, if any, did not
\* come from the backend: self.web_search.search raised
SasSearchRaised == outcome.exc # None /\ llm_outcomes = << >>

\* the one backend call of search_and_summarize: the summary prompt around
\* the formatted result list, no history, the summarizer system prompt
SasAsked ==
    llm_calls = << [user_message |->
                        SummaryPrompt(format_search_results(search_results, query)),
                    conversation_history |-> << >>,
                    system_prompt |-> SummarizerSystemPrompt] >>

\* search_and_summarize went straight to the aggregator with max_results = 5
\* and fetched no page
SasAggregated ==
    /\ max_results = 5
    /\ calls # << >> /\ calls[1].fn = "search_duckduckgo"
    /\ \A i \in 1..Len(calls) : calls[i].fn # "fetch_url_content"

\* C11 as stated: whenever search_and_summarize has ended and the aggregator
\* returned, it aggregated with max_results = 5 without fetching and asked
\* the backend for a summary of the formatted result set, also when that set
\* is empty.
C11_AlwaysAsksForSummary ==
    (entry = "search_and_summarize" /\ pc = "done" /\ ~SasSearchRaised)
        => SasAggregated /\ SasAsked

\* C11 amended: search_and_summarize always aggregates with max_results = 5
\* and no fetching, whatever the classifier would say; for a non-empty result
\* set it asks the backend once for a summary of the formatted set; for an
\* empty set it returns the fixed "nothing found" sentence and does not call
\* the backend; when the aggregator raises, the backend is not called either.
C11_SummaryOrNothingFound ==
    (entry = "search_and_summarize" /\ pc = "done")
        => /\ SasAggregated
           /\ IF SasSearchRaised
              THEN llm_calls = << >>
              ELSE IF search_results # << >>
              THEN /\ SasAsked
                   /\ llm_calls[1].user_message.context.kind = "block"
                   /\ outcome = llm_outcomes[1]
              ELSE /\ llm_calls = << >>
                   /\ outcome = Returned(NothingFound)

\* C11 witness: for a query the classifier rejects, search_and_summarize
\* found two results and returned the backend's summary.
C11_Witness ==
    /\ entry = "search_and_summarize" /\ pc = "done"
    /\ ~NeedsSearch(query, TRUE)
    /\ Len(search_results) = 2
    /\ Len(llm_calls) = 1 /\ outcome = Returned("reply")

\* C12: whenever generate_response raised, the entry point that called it
\* has ended with that same error, not with a returned value.
C12_BackendFailurePropagates ==
    \A i \in 1..Len(llm_outcomes) :
        llm_outcomes[i].exc # None
            => /\ pc = "done"
               /\ outcome.exc = llm_outcomes[i].exc
               /\ outcome.value = None

\* C12 witness: generate_with_search, on the grounded path with results in
\* the prompt, ended with the backend's error.
C12_Witness ==
    /\ entry = "generate_with_search" /\ pc = "done" /\ needs_search
    /\ search_results # << >>
    /\ Len(llm_calls) = 1 /\ llm_calls[1].user_message.augmented
    /\ llm_outcomes = << Raised("Exception") >>
    /\ outcome = Raised("Exception")

\* a fetch_url_content call whose page request failed: network error,
\* timeout, or a status other than 200
FetchFailed(c) ==
    c.fn = "fetch_url_content" /\ (c.failed \/ c.status # 200)

\* the list search returned to search_with_content
SearchReturned == Take(all_results, max_results)

\* C13: in search_with_content, a failed content fetch (non-200 status,
\* network error or timeout) does not raise; the result it was made for keeps
\* its snippet and gets no full_content; the loop goes on to the end of the
\* list, and search_with_content returns a list.
C13_EnrichmentBestEffort ==
    \A i \in 1..Len(calls) :
        FetchFailed(calls[i])
            => /\ calls[i].raised = None
               /\ \A k \in 1..Len(results) :
                      results[k].url = calls[i].url
                          => /\ ~Truthy(results[k].full_content)
                             /\ results[k].snippet = SearchReturned[k].snippet
               /\ pc \in {"generate", "done"} => Len(enhanced_results) = Len(results)
               /\ (entry = "search_with_content" /\ pc = "done")
                      => outcome.exc = None /\ Len(outcome.value) = Len(results)

\* position of the first character of the host in a url: after "://"
HostStart(u) ==
    IF \E i \in 1..(Len(u) - 2) : u[i] = 58 /\ u[i + 1] = 47 /\ u[i + 2] = 47
    THEN 3 + CHOOSE i \in 1..(Len(u) - 2) :
                 /\ u[i] = 58 /\ u[i + 1] = 47 /\ u[i + 2] = 47
                 /\ \A j \in 1..(i - 1) : ~(u[j] = 58 /\ u[j + 1] = 47 /\ u[j + 2] = 47)
    ELSE 1

\* the host of a url: from after "://" up to the next "/", "?" or "#"
Host(u) ==
    LET from == HostStart(u)
        stops == {i \in from..Len(u) : u[i] \in {47, 63, 35}}
        to == IF stops = {} THEN Len(u)
              ELSE (CHOOSE i \in stops : \A j \in stops : i <= j) - 1
    IN  SubSeq(u, from, to)

EndsWith(s, t) ==
    Len(s) >= Len(t) /\ SubSeq(s, Len(s) - Len(t) + 1, Len(s)) = t

\* the url belongs to the encyclopedia domain: its host is wikipedia.org or
\* a subdomain of it
OnEncyclopediaDomain(u) ==
    Host(u) = wikipedia_org \/ EndsWith(Host(u), <<46>> \o wikipedia_org)

\* fetch_url_content has been called with this url
Fetched(u) ==
    \E i \in 1..Len(calls) : calls[i].fn = "fetch_url_content" /\ calls[i].url = u

\* C14: in search_with_content with fetch_content = true, every result the
\* loop has gone through was fetched if and only if its url is non-empty and
\* not on the encyclopedia domain, and a result that was not fetched is
\* returned as search gave it; with fetch_content = false nothing is fetched
\* and the list is returned as search gave it.
C14_FetchExactlyNonEncyclopediaUrls ==
    entry \in {"search_with_content", "generate_with_search"}
        => /\ fetch_content
              => \A k \in 1..Len(enhanced_results) :
                     LET u == SearchReturned[k].url
                     IN  /\ Fetched(u) <=> (u # EmptyStr /\ ~OnEncyclopediaDomain(u))
                         /\ ~Fetched(u) => enhanced_results[k] = SearchReturned[k]
           /\ ~fetch_content
              => /\ \A i \in 1..Len(calls) : calls[i].fn # "fetch_url_content"
                 /\ (entry = "search_with_content" /\ pc = "done" /\ outcome.exc = None)
                        => outcome.value = SearchReturned

\* the text is a piece of the clean text of a fetched page that had at least
\* n characters
FromPageOfAtLeast(t, n) == t.id[1] = "page" /\ t.id[2] >= n

\* C15: a result enriched from a page text of at least 1500 characters has a
\* full_content of exactly 1500 characters and, as snippet, the first 500
\* characters of that content followed by an ellipsis; no full_content is
\* longer than 1500 characters.
C15_ContentTruncation ==
    \A k \in 1..Len(enhanced_results) :
        LET content == enhanced_results[k].full_content
        IN  /\ content.len <= 1500
            /\ FromPageOfAtLeast(content, 1500)
                  => /\ content.len = 1500 /\ ~content.ell
                     /\ enhanced_results[k].snippet =
                            [id |-> content.id, len |-> 500, ell |-> TRUE]

\* C15 witness: search_with_content returned a result enriched from a page
\* of 10,000 characters.
C15_Witness ==
    /\ entry = "search_with_content" /\ pc = "done" /\ outcome.exc = None
    /\ \E k \in 1..Len(outcome.value) :
           /\ outcome.value[k].full_content.id = <<"page", 10000>>
           /\ outcome.value[k].full_content.len = 1500
           /\ outcome.value[k].snippet.len = 500 /\ outcome.value[k].snippet.ell

-----------------------------------------------------------------------------
\* The classifier of generate_with_search as a function of the message.

\* bound: the longest message built from the vocabulary, in words
MaxWords == 3

\* the word count from which the question-mark test no longer applies
WordLimit == 15

\* vocabulary of the sample messages:
\* "who", "WHO", "is", "what", "showing", "hello", "you?", "кто", "привет", "новости"
ClassifierWords ==
    {
     <<119, 104, 111>>,
     <<87, 72, 79>>,
     <<105, 115>>,
     <<119, 104, 97, 116>>,
     <<115, 104, 111, 119, 105, 110, 103>>,
     <<104, 101, 108, 108, 111>>,
     <<121, 111, 117, 63>>,
     <<1082, 1090, 1086>>,
     <<1087, 1088, 1080, 1074, 1077, 1090>>,
     <<1085, 1086, 1074, 1086, 1089, 1090, 1080>>
    }

\* the words of a sequence joined by single spaces
RECURSIVE Join(_)
Join(ws) ==
    IF ws = << >> THEN EmptyStr
    ELSE IF Len(ws) = 1 THEN ws[1]
    ELSE ws[1] \o <<32>> \o Join(Tail(ws))

\* "who a a ... a?" with n words
Padded(n) ==
    Join(<<<<119, 104, 111>>>> \o [i \in 1..(n - 2) |-> <<97>>] \o <<<<97, 63>>>>)

\* the sample messages: every sequence of 1..MaxWords words of the
\* vocabulary, and a question of WordLimit - 1 and one of WordLimit words
ClassifierTexts ==
    {Join(ws) : ws \in UNION {[1..n -> ClassifierWords] : n \in 1..MaxWords}}
        \cup {Padded(WordLimit - 1), Padded(WordLimit)}

ClassifierInit ==
    /\ pc = "idle"
    /\ entry = "none"
    /\ user_message \in ClassifierTexts
    /\ conversation_history = << >>
    /\ system_prompt = None
    /\ auto_search \in BOOLEAN
    /\ needs_search = FALSE
    /\ query = EmptyStr
    /\ max_results = 1
    /\ fetch_content = FALSE
    /\ ddg_results = << >>
    /\ ddg_html_results = << >>
    /\ wiki_result = NoResult
    /\ wiki_result_en = NoResult
    /\ all_results = << >>
    /\ results = << >>
    /\ enhanced_results = << >>
    /\ search_results = << >>
    /\ session = "None"
    /\ calls = << >>
    /\ llm_calls = << >>
    /\ llm_outcomes = << >>
    /\ outcome = Returned(None)
    /\ in_flight = {}
    /\ ddg_data = NoData
    /\ OutsideWebInit

\* generate_with_search up to `if needs_search:`: the classification alone
Classify ==
    /\ pc = "idle"
    /\ needs_search' = NeedsSearch(user_message, auto_search)
    /\ pc' = "classified"
    /\ UNCHANGED <<entry, user_message, conversation_history, system_prompt, auto_search,
                   search_args, search_locals, swc_locals, search_results, session,
                   calls, llm_calls, llm_outcomes, outcome>>
    /\ UNCHANGED <<in_flight, ddg_data>>
    /\ UNCHANGED outside_web

ClassifierNext == Classify

ClassifierSpec == ClassifierInit /\ [][ClassifierNext]_vars

\* (a): the lower-cased text contains a phrase of the trigger lexicon
HasTriggerPhrase(text) ==
    LET lower == Lower(text)
    IN  \E phrase \in search_keywords \cup english_keywords :
            \E i \in 0..(Len(lower) - Len(phrase)) :
                SubSeq(lower, i + 1, i + Len(phrase)) = phrase

HasQuestionMark(text) == \E i \in 1..Len(text) : text[i] = 63

\* (b): a question mark, fewer than 15 words, and a question word as the
\* first or second token (tokens compared in lower case)
IsShortQuestion(text) ==
    LET tokens == Split(Lower(text))
    IN  /\ HasQuestionMark(text)
        /\ Len(Split(text)) < 15
        /\ \/ Len(tokens) >= 1 /\ tokens[1] \in question_words
           \/ Len(tokens) >= 2 /\ tokens[2] \in question_words

\* C16: with auto_search enabled the classifier is true exactly when the
\* lower-cased text contains a trigger phrase, or the text has a question
\* mark, fewer than 15 words and a question word as first or second token;
\* without trigger phrase and question mark it is false.
C16_ClassifierExactly ==
    (pc = "classified" /\ auto_search)
        => /\ needs_search <=> (HasTriggerPhrase(user_message)
                                   \/ IsShortQuestion(user_message))
           /\ (~HasTriggerPhrase(user_message) /\ ~HasQuestionMark(user_message))
                  => ~needs_search

\* C16 witness: a question of 14 words without trigger phrase, starting with
\* a question word, has been classified true.
C16_Witness ==
    /\ pc = "classified" /\ auto_search /\ needs_search
    /\ user_message = Padded(14)
    /\ ~HasTriggerPhrase(user_message)

-----------------------------------------------------------------------------
\* format_search_results as a function of the result list and the query.

\* bound: the longest result list given to format_search_results
MaxFormatResults == 2

\* sample results: an encyclopedia result, a result of the HTML search as
\* found, the same enriched from a long and from a short page, and an
\* instant answer without url
FormatSamples ==
    LET site == Result(Txt(<<"result__a", 1>>, 20), Txt(<<"result__snippet", 1>>, 300),
                       Numbered(UrlSite, 1), "example.com")
    IN  {Result(Txt(<<"title", 0>>, 20), Ellipsis(Prefix(Txt(<<"extract", 0>>, 600), 500)),
                UrlWikiEn, "Wikipedia (EN)"),
         site,
         Enriched(site, Prefix(Txt(<<"page", 10000>>, 10000), SwcMaxLength)),
         Enriched(site, Txt(<<"page", 400>>, 400)),
         Result(Txt(<<"Heading", 0>>, 20), Txt(<<"AbstractText", 0>>, 200),
                EmptyStr, "AbstractSource")}

FormatInit ==
    /\ pc = "idle"
    /\ entry = "none"
    /\ user_message = EmptyStr
    /\ conversation_history = << >>
    /\ system_prompt = None
    /\ auto_search = TRUE
    /\ needs_search = FALSE
    /\ query \in Messages
    /\ max_results = 1
    /\ fetch_content = FALSE
    /\ ddg_results = << >>
    /\ ddg_html_results = << >>
    /\ wiki_result = NoResult
    /\ wiki_result_en = NoResult
    /\ all_results = << >>
    /\ results \in SeqsUpTo(FormatSamples, MaxFormatResults)
    /\ enhanced_results = << >>
    /\ search_results = << >>
    /\ session = "None"
    /\ calls = << >>
    /\ llm_calls = << >>
    /\ llm_outcomes = << >>
    /\ outcome = Returned(None)
    /\ in_flight = {}
    /\ ddg_data = NoData
    /\ OutsideWebInit

\* A caller invokes format_search_results(results, query) and gets the text.
CallFormatSearchResults ==
    /\ pc = "idle"
    /\ entry' = "format_search_results"
    /\ outcome' = Returned(format_search_results(results, query))
    /\ pc' = "done"
    /\ UNCHANGED <<gws_args, search_args, search_locals, swc_locals, search_results,
                   session, calls, llm_calls, llm_outcomes>>
    /\ UNCHANGED <<in_flight, ddg_data>>
    /\ UNCHANGED outside_web

FormatNext == CallFormatSearchResults

FormatSpec == FormatInit /\ [][FormatNext]_vars

\* C17: for an empty list format_search_results returns the "no results"
\* sentence naming the query, with no header, no section and no directive;
\* for a non-empty list it returns the block with one numbered section per
\* result, in list order.
C17_EmptyListGivesSentence ==
    (entry = "format_search_results" /\ pc = "done")
        => /\ outcome.exc = None
           /\ outcome.value.query = query
           /\ IF results = << >>
              THEN /\ outcome.value.kind = "no_results"
                   /\ outcome.value.sections = << >>
                   /\ outcome.value.found = 0 /\ outcome.value.directive = 0
              ELSE /\ outcome.value.kind = "block"
                   /\ outcome.value.found = Len(results)
                   /\ outcome.value.directive = Len(results)
                   /\ Len(outcome.value.sections) = Len(results)
                   /\ \A i \in 1..Len(results) :
                          /\ outcome.value.sections[i].n = i
                          /\ outcome.value.sections[i].title = results[i].title
                          /\ outcome.value.sections[i].source = results[i].source
                          /\ outcome.value.sections[i].url = results[i].url

\* C17 witness: format_search_results has returned the sentence for an empty
\* list and a non-empty query.
C17_Witness ==
    /\ entry = "format_search_results" /\ pc = "done"
    /\ results = << >> /\ query # EmptyStr
    /\ outcome.value.kind = "no_results" /\ outcome.value.query = query

\* C18 as stated: the section of a result with full_content shows the first
\* 800 characters of the full_content with the fragment marker and not the
\* snippet; the section of a result without full_content shows the snippet.
C18_FullTextInPlaceOfSnippet ==
    (entry = "format_search_results" /\ pc = "done")
        => \A i \in 1..Len(results) :
               LET section == outcome.value.sections[i]
                   content == results[i].full_content
               IN  IF content.len > 0
                   THEN /\ section.full_text.id = content.id
                        /\ section.full_text.len = Min(content.len, 800)
                        /\ section.snippet = NoContent
                   ELSE /\ section.snippet = results[i].snippet
                        /\ section.full_text = NoContent

\* C18 amended: every section shows the snippet as the description; the
\* section of a result with full_content shows in addition, under the
\* fragment marker, the first 800 characters of the full_content followed by
\* "..."; a section of a result without full_content shows no full text.
C18_FullTextAfterSnippet ==
    (entry = "format_search_results" /\ pc = "done")
        => \A i \in 1..Len(results) :
               LET section == outcome.value.sections[i]
                   content == results[i].full_content
               IN  /\ section.snippet = results[i].snippet
                   /\ IF content.len > 0
                      THEN section.full_text =
                               [id |-> content.id, len |-> Min(content.len, 800),
                                ell |-> TRUE]
                      ELSE section.full_text = NoContent

\* C18 witness: a result with 1500 characters of full_content has been
\* formatted: its section holds the snippet and 800 characters of full text.
C18_Witness ==
    /\ entry = "format_search_results" /\ pc = "done"
    /\ \E i \in 1..Len(results) :
           /\ results[i].full_content.len = 1500
           /\ outcome.value.sections[i].snippet = results[i].snippet
           /\ outcome.value.sections[i].full_text.len = 800

\* C19: when a timeout fires while a source call or a content fetch is
\* pending, the client does not raise, the aggregation makes no further call,
\* and search / search_with_content return a result list, not an error.
C19_TimeoutReturnsPartialResults ==
    \A i \in 1..Len(calls) :
        calls[i].exc = "TimeoutError"
            => /\ calls[i].raised = None
               /\ i = Len(calls)
               /\ (entry \in {"search", "search_with_content"} /\ pc = "done")
                      => outcome.exc = None

-----------------------------------------------------------------------------
\* ConversationManager: the conversation store.

\* bound: the number of add_message calls
MaxAdds == 3

\* the channel ids and the user ids of the sample calls
Channels == {1, 2}

Users == {1, 2}

\* max_history given to the constructor
max_history == 2

\* user_message and bot_response arguments of add_message: the n-th call
\* brings the n-th question and its answer, so every exchange is told apart
UserText(n) == <<"user_message", n>>

BotText(n) == <<"bot_response", n>>

\* limit argument of get_history: 0 stands for None (both are false in
\* `if limit:`)
Limits == {0, 1}

\* datetime.now(): the time values are not modelled
Now == "datetime"

\* self.conversations[channel_id][user_id] on the nested defaultdict: a
\* missing channel and a missing user are inserted, with an empty list
Touch(convs, channel_id, user_id) ==
    IF channel_id \notin DOMAIN convs
    THEN (channel_id :> (user_id :> << >>)) @@ convs
    ELSE IF user_id \notin DOMAIN convs[channel_id]
    THEN [convs EXCEPT ![channel_id] = (user_id :> << >>) @@ @]
    ELSE convs

\* Last keeping the oldest n elements instead
LastKeepsOldest(s, n) == IF Len(s) <= n THEN s ELSE SubSeq(s, 1, n)

\* the last n elements of a list: s[-n:] for n > 0
Last(s, n) == IF Len(s) <= n THEN s ELSE SubSeq(s, Len(s) - n + 1, Len(s))

\* the entry without its timestamp
OpenAIFormat(msg) == [role |-> msg.role, content |-> msg.content]

RECURSIVE SumOver(_, _)
SumOver(f, S) ==
    IF S = {} THEN 0
    ELSE LET x == CHOOSE y \in S : TRUE
         IN  Cardinality(DOMAIN f[x]) + SumOver(f, S \ {x})

\* get_all_conversations_count: the sum of len(channel_conversations)
get_all_conversations_count(convs) == SumOver(convs, DOMAIN convs)

CmCall(fn, channel_id, user_id, value) ==
    [fn |-> fn, channel_id |-> channel_id, user_id |-> user_id, value |-> value]

\* add_message(channel_id, user_id, user_message, bot_response)
AddMessage(channel_id, user_id, text, bot_response) ==
    /\ stats.total_messages < 2 * MaxAdds
    /\ LET touched == Touch(conversations, channel_id, user_id)
           conversation ==
               touched[channel_id][user_id]
                   \o <<[role |-> "user", content |-> text, timestamp |-> Now],
                        [role |-> "assistant", content |-> bot_response,
                         timestamp |-> Now]>>
           trimmed == IF Len(conversation) > max_history * 2
                      THEN Last(conversation, max_history * 2)
                      ELSE conversation
       IN  conversations' = [touched EXCEPT ![channel_id][user_id] = trimmed]
    /\ last_activity' = (<<channel_id, user_id>> :> Now) @@ last_activity
    /\ stats' = [stats EXCEPT !.total_messages = @ + 2]
    /\ cm_last' = CmCall("add_message", channel_id, user_id, << >>)
    /\ UNCHANGED outside_cm

\* get_history(channel_id, user_id, limit)
GetHistory(channel_id, user_id, limit) ==
    LET touched == Touch(conversations, channel_id, user_id)
        conversation == touched[channel_id][user_id]
        limited == IF limit # 0 THEN Last(conversation, limit * 2) ELSE conversation
    IN  /\ conversations' = touched
        /\ cm_last' = CmCall("get_history", channel_id, user_id,
                             [i \in 1..Len(limited) |-> OpenAIFormat(limited[i])])
        /\ UNCHANGED <<last_activity, stats, outside_cm>>

\* clear_history(channel_id, user_id); user_id 0 stands for None
ClearHistory(channel_id, user_id) ==
    /\ IF user_id # 0
       THEN IF channel_id \in DOMAIN conversations
               /\ user_id \in DOMAIN conversations[channel_id]
            THEN conversations' =
                     [conversations EXCEPT ![channel_id] =
                         [u \in (DOMAIN @) \ {user_id} |-> @[u]]]
            ELSE UNCHANGED conversations
       ELSE conversations' =
                [c \in (DOMAIN conversations) \ {channel_id} |-> conversations[c]]
    /\ cm_last' = CmCall("clear_history", channel_id, user_id, << >>)
    /\ UNCHANGED <<last_activity, stats, outside_cm>>

\* get_all_conversations_count()
GetAllConversationsCount ==
    /\ cm_last' = CmCall("get_all_conversations_count", 0, 0,
                         <<get_all_conversations_count(conversations)>>)
    /\ UNCHANGED <<conversations, last_activity, stats, outside_cm>>

CmNext ==
    \/ \E c \in Channels, u \in Users :
           LET n == (stats.total_messages \div 2) + 1
           IN  AddMessage(c, u, UserText(n), BotText(n))
    \/ \E c \in Channels, u \in Users, l \in Limits : GetHistory(c, u, l)
    \/ \E c \in Channels, u \in Users \cup {0} : ClearHistory(c, u)
    \/ GetAllConversationsCount

CmSpec == Init /\ [][CmNext]_vars

\* the (channel, user) pairs that have a conversation in the store
StoredPairs(convs) ==
    {<<c, u>> \in Channels \X Users : c \in DOMAIN convs /\ u \in DOMAIN convs[c]}

\* C20: a get_history call leaves the set of stored conversations, every
\* stored history and the value of get_all_conversations_count as they were,
\* also for a pair without stored history.
C20_GetHistoryReadOnly ==
    [][cm_last'.fn = "get_history"
          => /\ StoredPairs(conversations') = StoredPairs(conversations)
             /\ conversations' = conversations
             /\ get_all_conversations_count(conversations')
                    = get_all_conversations_count(conversations)]_vars

-----------------------------------------------------------------------------
\* The HTTP session of one WebSearchTool under concurrent requests.

Requests == 1..MaxRequests

\* the methods that take the session from _get_session
SessionClients ==
    {"search_duckduckgo", "search_duckduckgo_html", "search_wikipedia",
     "fetch_url_content"}

\* how many session.get calls a client makes with the session it took
GetsOf(client) == IF client = "search_wikipedia" THEN 2 ELSE 1

\* _get_session creating a session on every call
GetSessionAlwaysNew(cur, all) ==
    [session |-> Len(all) + 1, sessions |-> Append(all, "open")]

\* _get_session: a new ClientSession when self.session is None or closed,
\* else self.session; the method has no await, so it runs as one step
get_session(cur, all) ==
    IF cur = 0 \/ all[cur] = "closed"
    THEN [session |-> Len(all) + 1, sessions |-> Append(all, "open")]
    ELSE [session |-> cur, sessions |-> all]

\* A request enters a client: session = await self._get_session()
EnterClient(t, client) ==
    /\ req[t].client = "none"
    /\ LET got == get_session(current, sessions)
       IN  /\ Len(got.sessions) <= MaxSessions
           /\ sessions' = got.sessions
           /\ current' = got.session
           /\ req' = [req EXCEPT ![t] = [client |-> client, session |-> got.session,
                                         gets |-> 0]]
    /\ UNCHANGED outside_sess

\* async with session.get(...): one HTTP request on the session taken
SessionGet(t) ==
    /\ req[t].client # "none"
    /\ req[t].gets < GetsOf(req[t].client)
    /\ req' = [req EXCEPT ![t].gets = @ + 1]
    /\ UNCHANGED <<sessions, current, outside_sess>>

\* the client returns to its caller
LeaveClient(t) ==
    /\ req[t].client # "none"
    /\ req[t].gets = GetsOf(req[t].client)
    /\ req' = [req EXCEPT ![t] = [client |-> "none", session |-> 0, gets |-> 0]]
    /\ UNCHANGED <<sessions, current, outside_sess>>

\* WebSearchTool.close: closes the session when there is an open one
CloseSession ==
    /\ current # 0
    /\ sessions[current] = "open"
    /\ sessions' = [sessions EXCEPT ![current] = "closed"]
    /\ UNCHANGED <<current, req, outside_sess>>

SessNext ==
    \/ \E t \in Requests, client \in SessionClients : EnterClient(t, client)
    \/ \E t \in Requests : SessionGet(t)
    \/ \E t \in Requests : LeaveClient(t)
    \/ CloseSession

SessSpec == Init /\ [][SessNext]_vars

OpenSessions == {i \in 1..Len(sessions) : sessions[i] = "open"}

\* the requests that are inside a client
InClient == {t \in Requests : req[t].client # "none"}

----------------------------------------------------------------------------
\* Source calls of one aggregation in flight.

\* the positions at which search is suspended in a source-client call
AwaitPositions == {"await_ddg", "await_html", "await_wiki_ru", "await_wiki_en"}

\* C22: within one aggregation call at most one source-client call is in
\* flight at any time: a call is in flight exactly while search is suspended
\* at the await of that call, so the next source call is started only after
\* the one before it has returned.
C22_SourceCallsSequential ==
    /\ Cardinality(in_flight) <= 1
    /\ (in_flight # {}) <=> (pc \in AwaitPositions)
    /\ pc = "await_ddg" => in_flight = {SourceCallAt("search_ddg")}
    /\ pc = "await_html" => in_flight = {SourceCallAt("search_html")}
    /\ pc = "await_wiki_ru" => in_flight = {SourceCallAt("search_wiki_ru")}
    /\ pc = "await_wiki_en" => in_flight = {SourceCallAt("search_wiki_en")}

\* C22 witness: the HTML-search call is in flight after the instant-answer
\* call of the same aggregation has returned, and a Wikipedia call is still
\* to come if the count stays short.
C22_Witness ==
    /\ in_flight = {SourceCallAt("search_html")}
    /\ pc = "await_html"
    /\ Len(calls) = 1 /\ calls[1].fn = "search_duckduckgo"
    /\ max_results >= 2

\* two calls of the log that request the same source: the same client and,
\* for the encyclopedia, the same locale
SameSource(i, j) ==
    /\ calls[i].fn \in SourceClients
    /\ calls[i].fn = calls[j].fn
    /\ calls[i].lang = calls[j].lang

\* C23: within one search call no source is requested twice, also after a
\* failure or an empty answer, and a source call that failed contributed no
\* result and did not end the search: either a later step of the chain has
\* been taken or search is on its way to its return.
C23_NoRetryFailedSourceMovesOn ==
    /\ \A i, j \in 1..Len(calls) : (i < j) => ~SameSource(i, j)
    /\ \A i \in 1..Len(calls) :
        (calls[i].fn \in SourceClients /\ calls[i].failed)
            => /\ calls[i].count = 0
               /\ ~(i = Len(calls) /\ pc = "done" /\ outcome.exc # None
                    /\ outcome.exc = calls[i].raised)

\* search has returned its list to search_with_content: the request is past
\* the aggregation and no source call or count comparison ended it
SearchHasReturned ==
    /\ \A i \in 1..Len(calls) : calls[i].fn \in SourceClients => calls[i].raised = None
    /\ outcome.exc # "TypeError"

\* C24: a search_with_content call whose search returned a list ends by
\* returning a list of the same length that holds, position by position, the
\* results search returned (same title, url and source), whichever of them
\* were enriched, skipped or failed to fetch.
C24_SameNumberSameOrder ==
    (entry = "search_with_content" /\ pc = "done" /\ SearchHasReturned)
        => /\ outcome.exc = None
           /\ Len(outcome.value) = Len(SearchReturned)
           /\ \A k \in 1..Len(SearchReturned) :
                  /\ outcome.value[k].title = SearchReturned[k].title
                  /\ outcome.value[k].url = SearchReturned[k].url
                  /\ outcome.value[k].source = SearchReturned[k].source

----------------------------------------------------------------------------
\* The results of the instant-answer client.

\* the instant-answer client has returned the results of a 200 response
DdgAnswered ==
    /\ Len(calls) >= 1 /\ calls[1].fn = "search_duckduckgo"
    /\ ~calls[1].failed /\ calls[1].status = 200 /\ calls[1].raised = None

\* the results in ddg_results made of a related topic, and of the abstract
TopicResults == SelectSeq(ddg_results, LAMBDA r : r.source = "DuckDuckGo")

AbstractResults == SelectSeq(ddg_results, LAMBDA r : r.source = "AbstractSource")

\* ddg_results holds a result made of entry j of RelatedTopics
HasTopicResult(j) ==
    \E k \in 1..Len(ddg_results) :
        /\ ddg_results[k].source = "DuckDuckGo"
        /\ ddg_results[k].url = Numbered(UrlTopic, j)

\* what the claims about search_duckduckgo have in common: the abstract, when
\* present, is the first and only abstract result, else there is none; an
\* entry of RelatedTopics without text has no result; the list holds at most
\* max_results results
DdgAbstractFirstTextOnly ==
    /\ ddg_data.AbstractText
           => Len(AbstractResults) = 1 /\ ddg_results[1].source = "AbstractSource"
    /\ ~ddg_data.AbstractText => AbstractResults = << >>
    /\ \A j \in 1..Len(ddg_data.RelatedTopics) :
           ~ddg_data.RelatedTopics[j] => ~HasTopicResult(j)
    /\ Len(ddg_results) <= max_results

\* C25 as stated: the abstract, when present, is the first result; at most
\* max_results - 1 related-topic entries are mapped to results; entries
\* without text give no result; the list never exceeds max_results.
C25_AtMostMaxMinusOneTopics ==
    DdgAnswered
        => /\ DdgAbstractFirstTextOnly
           /\ Len(TopicResults) <= max_results - 1

\* C25 amended: the abstract, when present, is the first result and at most
\* max_results - 1 related-topic entries follow it; without an abstract up to
\* max_results related-topic entries are mapped; the entries mapped are the
\* ones with text among the first max_results - (number of abstract results)
\* entries, in their order; the list never exceeds max_results.
C25_TopicsFillWhatAbstractLeaves ==
    DdgAnswered
        => /\ DdgAbstractFirstTextOnly
           /\ Len(TopicResults) <= max_results - Len(AbstractResults)
           /\ \A j \in 1..Len(ddg_data.RelatedTopics) :
                  HasTopicResult(j)
                      <=> (ddg_data.RelatedTopics[j] /\ j <= max_results - Len(AbstractResults))
           /\ \A k, l \in 1..Len(TopicResults) :
                  \A a, b \in 1..Len(ddg_data.RelatedTopics) :
                      (/\ k < l
                       /\ TopicResults[k].url = Numbered(UrlTopic, a)
                       /\ TopicResults[l].url = Numbered(UrlTopic, b)) => a < b

\* C25 witness: an abstract and two related topics, the first without text,
\* with max_results = 3: the abstract is followed by the result of the second
\* topic only.
C25_Witness ==
    /\ DdgAnswered /\ max_results = 3
    /\ ddg_data.AbstractText
    /\ Len(ddg_data.RelatedTopics) >= 2
    /\ ~ddg_data.RelatedTopics[1] /\ ddg_data.RelatedTopics[2]
    /\ Len(ddg_results) = 2
    /\ ddg_results[2].url = Numbered(UrlTopic, 2)

\* C26: a generate_with_search call with auto_search = False performs no
\* retrieval whatever the message: the classifier is false, no source client
\* and no content extractor is called, and the backend gets the message,
\* history and system prompt as the caller passed them.
C26_NoRetrievalWithoutAutoSearch ==
    (entry = "generate_with_search" /\ ~auto_search)
        => /\ ~needs_search
           /\ calls = << >>
           /\ in_flight = {}
           /\ pc = "done" /\ outcome.exc = None => llm_calls = <<UnmodifiedCall>>

\* C27: a generate_with_search call never makes more than one backend call,
\* and one that has returned a string has made exactly one, whose reply is
\* the string it returned, whether the classifier was false, true with an
\* empty result list or true with results.
C27_BackendCalledExactlyOnce ==
    entry = "generate_with_search"
        => /\ Len(llm_calls) <= 1
           /\ Len(llm_outcomes) = Len(llm_calls)
           /\ (pc = "done" /\ outcome.exc = None)
                  => /\ Len(llm_calls) = 1
                     /\ outcome = llm_outcomes[1]
                     /\ outcome.value = "reply"

\* C27 witness: the classifier was true, the search ran and returned nothing,
\* and generate_with_search has returned the reply of its one backend call.
C27_Witness ==
    /\ entry = "generate_with_search" /\ pc = "done" /\ outcome.exc = None
    /\ needs_search /\ calls # << >> /\ search_results = << >>
    /\ Len(llm_calls) = 1
    /\ outcome.value = "reply"

----------------------------------------------------------------------------
\* The bound and the order of the conversation store.

\* the history stored for a pair, empty when the pair has none
HistoryOf(convs, c, u) ==
    IF c \in DOMAIN convs /\ u \in DOMAIN convs[c] THEN convs[c][u] ELSE << >>

\* the serial number of the exchange an entry belongs to
SerialOf(msg) == msg.content[2]

\* h is a list of whole exchanges: a user entry followed by the assistant
\* entry of the same exchange, the exchanges in the order they were added
WholeExchangesInOrder(h) ==
    /\ Len(h) % 2 = 0
    /\ \A i \in 1..Len(h) :
        /\ (i % 2 = 1) => h[i].role = "user" /\ h[i].content = UserText(SerialOf(h[i]))
        /\ (i % 2 = 0) => /\ h[i].role = "assistant"
                          /\ h[i].content = BotText(SerialOf(h[i - 1]))
        /\ (i >= 3) => SerialOf(h[i - 2]) < SerialOf(h[i])

\* C28: every stored history holds at most 2 * max_history entries,
\* alternates user and assistant entries starting with a user entry, and holds
\* whole exchanges in the order they were added; an add_message puts its
\* exchange last and keeps before it the most recent earlier entries of the
\* pair, as many as fit, and leaves every other pair's history as it was;
\* get_history changes no history.
C28_StoreBoundedMostRecent ==
    /\ [](\A c \in Channels, u \in Users :
            /\ Len(HistoryOf(conversations, c, u)) <= 2 * max_history
            /\ WholeExchangesInOrder(HistoryOf(conversations, c, u)))
    /\ [][\A c \in Channels, u \in Users :
            LET old == HistoryOf(conversations, c, u)
                new == HistoryOf(conversations', c, u)
                n == stats.total_messages \div 2 + 1
            IN  /\ (cm_last'.fn = "add_message" /\ stats' # stats
                    /\ cm_last'.channel_id = c /\ cm_last'.user_id = u)
                       => /\ Len(new) >= 2
                          /\ new[Len(new) - 1].content = UserText(n)
                          /\ new[Len(new)].content = BotText(n)
                          /\ Len(new) = IF Len(old) + 2 <= 2 * max_history
                                        THEN Len(old) + 2 ELSE 2 * max_history
                          /\ \A k \in 1..(Len(new) - 2) :
                                 new[k] = old[Len(old) - (Len(new) - 2) + k]
                /\ (cm_last'.fn = "add_message" /\ stats' # stats
                    /\ ~(cm_last'.channel_id = c /\ cm_last'.user_id = u))
                       => new = old
                /\ cm_last'.fn = "get_history" => new = old]_vars

\* C28 witness: every add of the run is done, a pair's history is full, its
\* oldest entry is not of the first exchange and its newest is of the last
\* one: the trimming has dropped from the front.
C28_Witness ==
    /\ stats.total_messages = 2 * MaxAdds
    /\ \E c \in Channels, u \in Users :
        LET h == HistoryOf(conversations, c, u)
        IN  /\ Len(h) = 2 * max_history
            /\ SerialOf(h[1]) >= 2
            /\ SerialOf(h[Len(h)]) = MaxAdds

----------------------------------------------------------------------------
\* RateLimiter.

\* self.requests[user_id] on the defaultdict: the list of a missing user is
\* empty
RequestsOf(reqs, user_id) == IF user_id \in DOMAIN reqs THEN reqs[user_id] ELSE << >>

\* [req_time for req_time in self.requests[user_id] if req_time > cutoff]
After(times, cutoff) == SelectSeq(times, LAMBDA req_time : req_time > cutoff)

\* AtLimit letting one request more through
AtLimitOneMore(n) == n > max_requests

\* `if len(self.requests[user_id]) >= self.max_requests`
AtLimit(n) == n >= max_requests

\* check_rate_limit(user_id)
CheckRateLimit(user_id) ==
    LET cutoff == now - period
        kept == After(RequestsOf(requests, user_id), cutoff)
    IN  /\ IF AtLimit(Len(kept))
           THEN /\ requests' = (user_id :> kept) @@ requests
                /\ rl_last' = [fn |-> "check_rate_limit", user_id |-> user_id,
                               allowed |-> FALSE,
                               wait_time |-> kept[1] + period - now]
                /\ UNCHANGED admitted
           ELSE /\ requests' = (user_id :> Append(kept, now)) @@ requests
                /\ rl_last' = [fn |-> "check_rate_limit", user_id |-> user_id,
                               allowed |-> TRUE, wait_time |-> NoWait]
                /\ admitted' = [admitted EXCEPT ![user_id] = Append(@, now)]
        /\ UNCHANGED <<now, outside_rl>>

\* reset_user(user_id)
ResetUser(user_id) ==
    /\ requests' = [u \in (DOMAIN requests) \ {user_id} |-> requests[u]]
    /\ admitted' = [admitted EXCEPT ![user_id] = << >>]
    /\ rl_last' = [fn |-> "reset_user", user_id |-> user_id, allowed |-> FALSE,
                   wait_time |-> NoWait]
    /\ UNCHANGED <<now, outside_rl>>

\* time passes between two calls
Tick ==
    /\ now < MaxTime
    /\ now' = now + 1
    /\ UNCHANGED <<requests, admitted, rl_last, outside_rl>>

RlNext ==
    \/ \E u \in RlUsers : CheckRateLimit(u)
    \/ \E u \in RlUsers : ResetUser(u)
    \/ Tick

RlSpec == Init /\ [][RlNext]_vars

\* the number of calls of a user allowed, since the user's last reset, at
\* times in the window (t - period, t]
AdmittedIn(log, user_id, t) ==
    Cardinality({i \in 1..Len(log[user_id]) :
                    log[user_id][i] > t - period /\ log[user_id][i] <= t})

\* C29: with a clock that never goes back, no user has more than max_requests
\* allowed calls in any window (t - period, t]; a check_rate_limit call is
\* allowed exactly when fewer than max_requests allowed calls of that user
\* fall in the period before it; a denied call records nothing; and a call of
\* one user leaves every other user's recorded requests and quota as they were.
C29_RateLimit ==
    /\ [](\A u \in RlUsers : \A t \in 0..MaxTime : AdmittedIn(admitted, u, t) <= max_requests)
    /\ [][rl_last'.fn = "check_rate_limit" /\ (rl_last' # rl_last \/ requests' # requests)
            => LET u == rl_last'.user_id
               IN  /\ rl_last'.allowed <=> AdmittedIn(admitted, u, now) < max_requests
                   /\ rl_last'.allowed
                          => /\ admitted'[u] = Append(admitted[u], now)
                             /\ RequestsOf(requests', u)
                                    = Append(After(RequestsOf(requests, u), now - period), now)
                   /\ ~rl_last'.allowed
                          => /\ admitted' = admitted
                             /\ RequestsOf(requests', u)
                                    = After(RequestsOf(requests, u), now - period)
                             /\ rl_last'.wait_time >= 0
                   /\ \A v \in RlUsers \ {u} :
                          /\ RequestsOf(requests', v) = RequestsOf(requests, v)
                          /\ admitted'[v] = admitted[v]]_vars

\* C29 witness: user 1 was allowed max_requests calls and then denied within
\* one period, was allowed again after the period had passed, and user 2 was
\* allowed meanwhile.
C29_Witness ==
    /\ Len(admitted[1]) = max_requests + 1
    /\ admitted[1][max_requests] < period
    /\ admitted[1][max_requests + 1] >= period
    /\ admitted[2] # << >>
    /\ rl_last.fn = "check_rate_limit" /\ rl_last.user_id = 1 /\ ~rl_last.allowed

----------------------------------------------------------------------------
\* send_long_message. A content is a sequence of runs: run [c, n] is the
\* character c repeated n times, adjacent runs holding different characters.

max_length == 2000

\* the characters of the sample contents: a letter, the space, the newline
Letter == 97

Space == 32

Newline == 10

\* what str.lstrip() removes, among the characters of the samples
Whitespace == {Space, Newline}

\* the lengths of the runs of the sample contents
RunLengths == {1, max_length - 1, max_length}

\* the sample contents: the empty string and up to MaxRuns runs
Contents ==
    {t \in UNION {[1..k -> [c : {Letter, Space, Newline}, n : RunLengths]] : k \in 0..MaxRuns} :
        \A i \in 1..(Len(t) - 1) : t[i].c # t[i + 1].c}

RECURSIVE TextLen(_)
\* len(t)
TextLen(t) == IF t = << >> THEN 0 ELSE Head(t).n + TextLen(Tail(t))

RECURSIVE TakeChars(_, _)
\* t[:k] for k >= 0
TakeChars(t, k) ==
    IF t = << >> \/ k <= 0 THEN << >>
    ELSE IF Head(t).n <= k THEN <<Head(t)>> \o TakeChars(Tail(t), k - Head(t).n)
    ELSE <<[c |-> Head(t).c, n |-> k]>>

RECURSIVE DropChars(_, _)
\* t[k:] for k >= 0
DropChars(t, k) ==
    IF t = << >> \/ k <= 0 THEN t
    ELSE IF Head(t).n <= k THEN DropChars(Tail(t), k - Head(t).n)
    ELSE <<[c |-> Head(t).c, n |-> Head(t).n - k]>> \o Tail(t)

RECURSIVE RFindFrom(_, _, _, _)
\* the highest index below end, in the text t that starts at index off, of the
\* character ch; -1 when there is none
RFindFrom(t, ch, end, off) ==
    IF t = << >> \/ off >= end THEN -1
    ELSE LET later == RFindFrom(Tail(t), ch, end, off + Head(t).n)
         IN  IF later # -1 THEN later
             ELSE IF Head(t).c = ch THEN Min(off + Head(t).n, end) - 1
             ELSE -1

\* t.rfind(ch, 0, end)
RFind(t, ch, end) == RFindFrom(t, ch, end, 0)

RECURSIVE LStrip(_)
\* t.lstrip()
LStrip(t) == IF t # << >> /\ Head(t).c \in Whitespace THEN LStrip(Tail(t)) ELSE t

\* send_long_message: where the content is cut: at the last newline among
\* its first max_length characters, else at the last space among them, else
\* at max_length
SplitPos(t) ==
    IF RFind(t, Newline, max_length) # -1 THEN RFind(t, Newline, max_length)
    ELSE IF RFind(t, Space, max_length) # -1 THEN RFind(t, Space, max_length)
    ELSE max_length

\* send_long_message(channel, content, reference): a content of at most
\* max_length characters is sent whole; a longer one goes to the loop
CallSendLongMessage(c, ref) ==
    /\ slm_pc = "idle"
    /\ original' = c
    /\ reference' = ref
    /\ IF TextLen(c) <= max_length
       THEN /\ sent' = <<[text |-> c, reply |-> ref]>>
            /\ slm_pc' = "done"
            /\ UNCHANGED <<slm_content, parts, starts>>
       ELSE /\ slm_content' = c
            /\ slm_pc' = "split"
            /\ UNCHANGED <<parts, sent, starts>>
    /\ UNCHANGED outside_slm

\* one iteration of `while content:` and the test that follows it
SplitStep ==
    /\ slm_pc = "split"
    /\ LET consumed == TextLen(original) - TextLen(slm_content)
       IN  IF TextLen(slm_content) <= max_length
           THEN /\ parts' = Append(parts, slm_content)
                /\ starts' = Append(starts, consumed)
                /\ slm_pc' = "send"
                /\ UNCHANGED slm_content
           ELSE LET split_pos == SplitPos(slm_content)
                    rest == LStrip(DropChars(slm_content, split_pos))
                IN  /\ parts' = Append(parts, TakeChars(slm_content, split_pos))
                    /\ starts' = Append(starts, consumed)
                    /\ slm_content' = rest
                    /\ slm_pc' = IF rest = << >> THEN "send" ELSE "split"
    /\ UNCHANGED <<reference, sent, original, outside_slm>>

\* one iteration of `for i, part in enumerate(parts)`: the part is sent, as a
\* reply when it is the first and a reference was given, and the task sleeps
SendPart ==
    /\ slm_pc = "send"
    /\ LET i == Len(sent)
       IN  /\ i < Len(parts)
           /\ sent' = Append(sent, [text |-> parts[i + 1], reply |-> (i = 0 /\ reference)])
           /\ slm_pc' = IF i + 1 = Len(parts) THEN "done" ELSE "send"
    /\ UNCHANGED <<slm_content, reference, parts, original, starts, outside_slm>>

SlmNext ==
    \/ \E c \in Contents, ref \in BOOLEAN : CallSendLongMessage(c, ref)
    \/ SplitStep
    \/ SendPart

SlmSpec == Init /\ [][SlmNext]_vars

\* original[a:b]
Slice(t, a, b) == TakeChars(DropChars(t, a), b - a)

\* every part cut so far is a piece of the argument, and the pieces follow
\* each other in the argument without overlap
PartsInOrder ==
    /\ Len(starts) = Len(parts)
    /\ \A i \in 1..Len(parts) :
        /\ parts[i] = Slice(original, starts[i], starts[i] + TextLen(parts[i]))
        /\ (i > 1) => starts[i] >= starts[i - 1] + TextLen(parts[i - 1])

\* what is sent after a split is the parts, in their order
SentInOrder ==
    slm_pc \in {"split", "send"} \/ parts # << >>
        => /\ Len(sent) <= Len(parts)
           /\ \A i \in 1..Len(sent) : sent[i].text = parts[i]

\* every step of the loops makes progress, and a loop that is not over can
\* take its next step: the call ends
SlmProgress ==
    /\ [](/\ slm_pc = "split" => slm_content # << >>
          /\ slm_pc = "send" => Len(sent) < Len(parts))
    /\ [][/\ slm_pc = "split" /\ slm_pc' = "split" => TextLen(slm_content') < TextLen(slm_content)
          /\ slm_pc = "send" => Len(sent') = Len(sent) + 1 /\ parts' = parts]_vars

\* every message sent is at most max_length characters long
SentWithinLimit == \A i \in 1..Len(sent) : TextLen(sent[i].text) <= max_length

\* C30: send_long_message ends for every content, and every part it sends is
\* non-empty and at most max_length = 2000 characters long, the parts being
\* sent in the order they occur in the content.
C30_EndsPartsNonEmptyWithinLimit ==
    /\ SlmProgress
    /\ [](/\ SentWithinLimit
          /\ PartsInOrder
          /\ SentInOrder
          /\ \A i \in 1..Len(sent) : sent[i].text # << >>)

\* the same without the parts being non-empty
SendLongMessageEndsWithinLimit ==
    /\ SlmProgress
    /\ [](SentWithinLimit /\ PartsInOrder /\ SentInOrder)

====
